---------------------------- MODULE Spec2Model ----------------------------
(***************************************************************************)
(* Model of the pesca aquaculture monitoring core:                         *)
(*   - the alerting state machine (MonitorSensorsUseCase.execute and the   *)
(*     dashboard path simulate_and_process),                               *)
(*   - the environmental simulator (generate_reading),                     *)
(*   - the genetic feed optimizer (optimize_feed).                         *)
(* Real-valued quantities are fixed-point integers: sensor values are in   *)
(* thousandths of their unit (26.0 C = 26000).                             *)
(***************************************************************************)
EXTENDS Integers, Sequences, FiniteSets, TLC

VARIABLES
    sensor_readings,  \* table sensor_readings, rows in insertion order
    alerts,           \* table alerts, rows in insertion order
    now,              \* the wall clock read by datetime.now(), in ticks
    lastCall,         \* the last alerting handler run and what it returned
    TANK_PROFILES,    \* simulator: profile per tank id
    TANK_STATE,       \* simulator: STATE, the state per tank id
    ACTIVE_EVENTS,    \* simulator: active events per tank id
    INTERVAL,         \* simulator: seconds between readings (set by main)
    wall,             \* simulator: local wall clock, [day, minute]
    reading,          \* simulator: what the last generate_reading returned
    used,             \* simulator: random events drawn so far (model budget)
    cfg,              \* optimizer: the GAConfig of the call
    env,              \* optimizer: the environment inputs of the call
    run,              \* optimizer: the locals of optimize_feed and where it is
    rerun,            \* optimizer: the same, for a second run of the same call
    feed_plan,        \* feed plan: the last recommend_feed_plan call and its result
    constructed,      \* entity: the last SensorReading construction and its outcome
    env_call,         \* multiplier: the last two _env_multiplier calls
    feed_recommendations, \* feed use case: rows saved through the feed repository
    feed_calls,       \* feed use case: the calls of execute and how they ended
    inflight          \* alerting: per process, the execute call it is inside of

alertVars == <<sensor_readings, alerts, now, lastCall, inflight>>

simVars == <<TANK_PROFILES, TANK_STATE, ACTIVE_EVENTS, INTERVAL, wall, reading, used>>

gaVars == <<cfg, env, run, rerun, feed_plan>>

entityVars == <<constructed>>

probeVars == <<env_call>>

feedVars == <<feed_recommendations, feed_calls>>

vars == <<sensor_readings, alerts, now, lastCall,
          TANK_PROFILES, TANK_STATE, ACTIVE_EVENTS, INTERVAL, wall, reading, used,
          cfg, env, run, rerun, feed_plan, constructed, env_call,
          feed_recommendations, feed_calls, inflight>>

-----------------------------------------------------------------------------
(* Bounds of the model *)

MaxReadings == 3

MaxTicks == 3
MaxDay == 1
MaxSpikes == 1
MaxAeratorFailures == 1

MaxGenerations == 2

MaxFeedCalls == 1

MaxSweeps == 2

MaxBioTicks == 8

-----------------------------------------------------------------------------
(* config/settings.py: WATER_QUALITY_THRESHOLDS, in thousandths *)

ph_min == 6500
ph_max == 8500
temp_min == 24000
temp_max == 28000
oxygen_min == 70000
turbidez_max == 50000

(* float("inf"), the upper limit _checks gives oxygen *)
Inf == 2000000000

(* SensorReading hard limits *)
TEMP_MIN_HARD == 0
TEMP_MAX_HARD == 50000
PH_MIN_HARD == 0
PH_MAX_HARD == 14000
OXY_MIN_HARD == 0
OXY_MAX_HARD == 100000
TURB_MIN_HARD == 0
TURB_MAX_HARD == 200000

-----------------------------------------------------------------------------
(* Generic helpers *)

Range(s) == {s[i] : i \in 1..Len(s)}

Max2(a, b) == IF a >= b THEN a ELSE b

Min2(a, b) == IF a <= b THEN a ELSE b

-----------------------------------------------------------------------------
(* SensorReading: validation and per-metric status *)

ValidReading(r) ==
    /\ TEMP_MIN_HARD <= r.temperatura /\ r.temperatura <= TEMP_MAX_HARD
    /\ PH_MIN_HARD <= r.ph /\ r.ph <= PH_MAX_HARD
    /\ OXY_MIN_HARD <= r.oxigenio /\ r.oxigenio <= OXY_MAX_HARD
    /\ TURB_MIN_HARD <= r.turbidez /\ r.turbidez <= TURB_MAX_HARD

status_temperatura(r) ==
    IF temp_min <= r.temperatura /\ r.temperatura <= temp_max
    THEN "NORMAL" ELSE "WARNING"

status_ph(r) ==
    IF ph_min <= r.ph /\ r.ph <= ph_max THEN "NORMAL" ELSE "WARNING"

(* status_oxigenio grading a value under the minimum as CRITICAL *)
status_oxigenio_critical(r) ==
    IF r.oxigenio >= oxygen_min THEN "NORMAL" ELSE "CRITICAL"

status_oxigenio(r) ==
    IF r.oxigenio >= oxygen_min THEN "NORMAL" ELSE "WARNING"

status_turbidez(r) ==
    IF r.turbidez <= turbidez_max THEN "NORMAL" ELSE "WARNING"

MetricKeys == <<"temperature", "ph", "oxygen", "turbidity">>

sev_map(r) ==
    [temperature |-> status_temperatura(r),
     ph          |-> status_ph(r),
     oxygen      |-> status_oxigenio(r),
     turbidity   |-> status_turbidez(r)]

checks(r) ==
    << [key |-> "temperature", value |-> r.temperatura, lo |-> temp_min, hi |-> temp_max],
       [key |-> "ph",          value |-> r.ph,          lo |-> ph_min,   hi |-> ph_max],
       [key |-> "oxygen",      value |-> r.oxigenio,    lo |-> oxygen_min, hi |-> Inf],
       [key |-> "turbidity",   value |-> r.turbidez,    lo |-> 0, hi |-> turbidez_max] >>

(* _threshold_for, were it to report the upper limit of the check always *)
threshold_for_upper(key, value, lo, hi) == hi

(* _threshold_for *)
threshold_for(key, value, lo, hi) ==
    IF key = "oxygen" THEN oxygen_min
    ELSE IF key = "turbidity" THEN turbidez_max
    ELSE IF value > hi THEN hi ELSE lo

-----------------------------------------------------------------------------
(* Repositories over the two tables *)

NoReading == [tank_id |-> 0]

TankRows(rows, tid) == SelectSeq(rows, LAMBDA r : r.tank_id = tid)

(* SELECT ... WHERE tank_id=? ORDER BY timestamp DESC LIMIT 1 *)
last_for_tank(rows, tid) ==
    LET mine == {i \in 1..Len(rows) : rows[i].tank_id = tid}
    IN  IF mine = {} THEN NoReading
        ELSE rows[CHOOSE i \in mine :
                    \A j \in mine : rows[j].timestamp <= rows[i].timestamp]

(* the same UPDATE without its IFNULL(resolved,0)=0 filter *)
resolve_open_by_type_unfiltered(tbl, tid, alert_type, when) ==
    [i \in 1..Len(tbl) |->
        IF tbl[i].tank_id = tid /\ tbl[i].alert_type = alert_type
        THEN [tbl[i] EXCEPT !.resolved = TRUE, !.resolved_at = when]
        ELSE tbl[i]]

(* UPDATE alerts SET resolved=1, resolved_at=? WHERE tank_id=? AND alert_type=?
   AND IFNULL(resolved,0)=0 *)
resolve_open_by_type(tbl, tid, alert_type, when) ==
    [i \in 1..Len(tbl) |->
        IF tbl[i].tank_id = tid /\ tbl[i].alert_type = alert_type /\ ~tbl[i].resolved
        THEN [tbl[i] EXCEPT !.resolved = TRUE, !.resolved_at = when]
        ELSE tbl[i]]

-----------------------------------------------------------------------------
(* MonitorSensorsUseCase.execute *)

(* "sem historico = assume NORMAL" *)
PrevSeverityNoBaseline(prev, key) ==
    IF prev = NoReading THEN "WARNING" ELSE sev_map(prev)[key]

PrevSeverity(prev, key) ==
    IF prev = NoReading THEN "NORMAL" ELSE sev_map(prev)[key]

(* the two tests of the loop body: skip NORMAL, fire on a changed severity *)
FiresAlertEveryReading(prv, cur) == cur # "NORMAL"

FiresAlert(prv, cur) == cur # "NORMAL" /\ prv # cur

(* the alerts execute builds (and saves) for reading r, in _checks order *)
execute_alerts(prev, r, ts) ==
    LET cs == checks(r)
        fired == SelectSeq(cs, LAMBDA c :
                    FiresAlert(PrevSeverity(prev, c.key), sev_map(r)[c.key]))
    IN  [i \in 1..Len(fired) |->
            [tank_id     |-> r.tank_id,
             alert_type  |-> fired[i].key,
             severity    |-> sev_map(r)[fired[i].key],
             value       |-> fired[i].value,
             threshold   |-> threshold_for(fired[i].key, fired[i].value,
                                           fired[i].lo, fired[i].hi),
             created_at  |-> ts,
             resolved    |-> FALSE,
             resolved_at |-> 0]]

(* run.py: the AUTO-RESOLVE tail of simulate_and_process *)
resolve_normal_metrics(tbl, r, when) ==
    LET s  == sev_map(r)
        t1 == IF s.temperature = "NORMAL"
              THEN resolve_open_by_type(tbl, r.tank_id, "temperature", when) ELSE tbl
        t2 == IF s.ph = "NORMAL"
              THEN resolve_open_by_type(t1, r.tank_id, "ph", when) ELSE t1
        t3 == IF s.oxygen = "NORMAL"
              THEN resolve_open_by_type(t2, r.tank_id, "oxygen", when) ELSE t2
    IN  IF s.turbidity = "NORMAL"
        THEN resolve_open_by_type(t3, r.tank_id, "turbidity", when) ELSE t3

-----------------------------------------------------------------------------
(* Inputs of the alerting machine *)

AlertTanks == {1, 2}

TemperaturaInputs == {23000, 28000, 29000}
PhInputs == {6000, 7200, 9000}
OxigenioInputs == {60000, 70000}
TurbidezInputs == {20000, 60000}

ReadingValues ==
    [temperatura : TemperaturaInputs, ph : PhInputs,
     oxigenio : OxigenioInputs, turbidez : TurbidezInputs]

OutOfRange(v) ==
    {k \in Range(MetricKeys) :
        sev_map([tank_id |-> 1, temperatura |-> v.temperatura, ph |-> v.ph,
                 oxigenio |-> v.oxigenio, turbidez |-> v.turbidez])[k] # "NORMAL"}

(* readings with no, one, or every metric out of its operational range;
   when all four are out, temperature and pH are out on the same side *)
ReadingInputs ==
    {v \in ReadingValues :
        \/ Cardinality(OutOfRange(v)) <= 1
        \/ /\ Cardinality(OutOfRange(v)) = 4
           /\ (v.temperatura > temp_max) = (v.ph > ph_max)}

MkReading(tid, v, ts) ==
    [tank_id |-> tid, temperatura |-> v.temperatura, ph |-> v.ph,
     oxigenio |-> v.oxigenio, turbidez |-> v.turbidez, timestamp |-> ts]

-----------------------------------------------------------------------------
(* Simulator: fixed-point arithmetic *)
(* sensor values, variances, noise: thousandths; strength and decay:        *)
(* thousandths; bio_load: millionths; sine values: ten-thousandths          *)

Abs(x) == IF x < 0 THEN 0 - x ELSE x

(* Python round() of num/den (den > 0, num >= 0): ties to the even integer *)
RoundHalfEven(num, den) ==
    LET q == num \div den
        r == num % den
    IN  IF 2 * r < den THEN q
        ELSE IF 2 * r > den THEN q + 1
        ELSE IF q % 2 = 0 THEN q ELSE q + 1

(* sin of the first-quadrant angle of a minutes out of 1440 (0 <= a <= 360),
   by its Taylor polynomial up to x^9 *)
SinQuadrant(a) ==
    LET x  == (a * 31416) \div 720
        x2 == (x * x) \div 10000
        t4 == 10000 - (x2 \div 72)
        t3 == 10000 - (((x2 * t4) \div 10000) \div 42)
        t2 == 10000 - (((x2 * t3) \div 10000) \div 20)
        t1 == 10000 - (((x2 * t2) \div 10000) \div 6)
    IN  (x * t1) \div 10000

(* sin(2*pi*a/1440) for a in 0..1439 *)
SinMinutes(a) ==
    IF a <= 360 THEN SinQuadrant(a)
    ELSE IF a <= 720 THEN SinQuadrant(720 - a)
    ELSE IF a <= 1080 THEN 0 - SinQuadrant(a - 720)
    ELSE 0 - SinQuadrant(1440 - a)

clamp(v, lo, hi) == Max2(lo, Min2(hi, v))

-----------------------------------------------------------------------------
(* Simulator: parameters *)

FEED_TIMES_MIN == <<480, 720, 1080>>
FEED_EVENT_MIN == 45
FEED_WINDOW_MIN == 5
AERATOR_FAIL_MIN_LO == 10
AERATOR_FAIL_MIN_HI == 40
WATER_RENEW_MIN_LO == 15
WATER_RENEW_MIN_HI == 30
BIO_LOAD_START == 100000
BIO_LOAD_CAP == 2000000
BIO_LOAD_RENEWAL_DROP == 15000
PH_CLAMP_LO == 4000
PH_CLAMP_HI == 10000

ConfiguredProfiles ==
    (1 :> [temperature_base |-> 26000, temp_var |-> 2000, ph_base |-> 7200,
           ph_var |-> 350, oxygen_base |-> 86000, oxy_var |-> 10000,
           turbidity_base |-> 22000, turb_var |-> 6000])
    @@ (2 :> [temperature_base |-> 27000, temp_var |-> 2300, ph_base |-> 7000,
              ph_var |-> 300, oxygen_base |-> 88000, oxy_var |-> 9000,
              turbidity_base |-> 20000, turb_var |-> 5000])
    @@ (3 :> [temperature_base |-> 25500, temp_var |-> 1800, ph_base |-> 7300,
              ph_var |-> 400, oxygen_base |-> 83000, oxy_var |-> 11000,
              turbidity_base |-> 26000, turb_var |-> 7000])
    @@ (4 :> [temperature_base |-> 26500, temp_var |-> 2600, ph_base |-> 6900,
              ph_var |-> 450, oxygen_base |-> 85000, oxy_var |-> 12000,
              turbidity_base |-> 24000, turb_var |-> 6000])

(* _ensure_profile: the profile table after the lookup of tid *)
ensure_profile(profiles, tid) ==
    IF tid \in DOMAIN profiles THEN profiles
    ELSE LET offs == (tid % 4) * 300
         IN  profiles @@
             (tid :> [temperature_base |-> 26000 + offs,
                      temp_var         |-> 2000 + offs \div 2,
                      ph_base          |-> 7100 + offs \div 10,
                      ph_var           |-> 350,
                      oxygen_base      |-> 85000 - offs,
                      oxy_var          |-> 10000 + offs,
                      turbidity_base   |-> 22000 + offs,
                      turb_var         |-> 6000])

(* _ensure_state: the state table, and the event table, after the lookup *)
ensure_state(states, prof, tid) ==
    IF tid \in DOMAIN states THEN states
    ELSE states @@
         (tid :> [temperature  |-> prof.temperature_base,
                  ph           |-> prof.ph_base,
                  oxygen       |-> prof.oxygen_base,
                  turbidity    |-> prof.turbidity_base,
                  tick         |-> 0,
                  bio_load     |-> BIO_LOAD_START,
                  last_day_idx |-> -1])

ensure_events(events, tid) ==
    IF tid \in DOMAIN events THEN events ELSE events @@ (tid :> <<>>)

(* ACTIVE_EVENTS, were one list object shared by every tank *)
put_events_shared(events, tid, evs) ==
    [t \in DOMAIN events \cup {tid} |-> evs]

(* ACTIVE_EVENTS[tid] = new_list and ACTIVE_EVENTS[tid].append(...): the list
   of tank tid alone is replaced *)
put_events(events, tid, evs) ==
    [t \in DOMAIN events \cup {tid} |-> IF t = tid THEN evs ELSE events[t]]

ticks_for_minutes(minutes, interval) ==
    Max2(1, RoundHalfEven(minutes * 60, Max2(1, interval)))

diurnal(min_of_day, peak_min) == SinMinutes((min_of_day - peak_min) % 1440)

(* _decay_events keeping the events that have reached zero ticks *)
decay_events_keep_zero(evs) ==
    SelectSeq([i \in 1..Len(evs) |->
                  [evs[i] EXCEPT !.remaining_ticks = @ - 1]],
              LAMBDA e : e.remaining_ticks >= 0)

(* _decay_events *)
decay_events(evs) ==
    SelectSeq([i \in 1..Len(evs) |->
                  [evs[i] EXCEPT !.remaining_ticks = @ - 1]],
              LAMBDA e : e.remaining_ticks > 0)

(* the roll that starts no event *)
NoStart == [minutes |-> 0, strength |-> 0]

HasEvent(evs, name) == \E i \in 1..Len(evs) : evs[i].name = name

(* _maybe_start_event_daily: the events after the daily roll; start is NoStart
   or the drawn [minutes, strength] of a water renewal *)
maybe_start_event_daily(evs, last_day_idx, day_idx, start, interval) ==
    IF last_day_idx # day_idx /\ start # NoStart
    THEN Append(evs, [name |-> "water_renewal",
                      remaining_ticks |-> ticks_for_minutes(start.minutes, interval),
                      strength |-> start.strength])
    ELSE evs

(* one turn of the loop over FEED_TIMES_MIN, without its any(...) test *)
feed_turn_unchecked(evs, mod, feed_min, interval) ==
    IF Abs(mod - feed_min) <= FEED_WINDOW_MIN
    THEN Append(evs, [name |-> "feeding",
                      remaining_ticks |-> ticks_for_minutes(FEED_EVENT_MIN, interval),
                      strength |-> 1000])
    ELSE evs

(* one turn of the loop over FEED_TIMES_MIN *)
feed_turn(evs, mod, feed_min, interval) ==
    IF Abs(mod - feed_min) <= FEED_WINDOW_MIN /\ ~HasEvent(evs, "feeding")
    THEN Append(evs, [name |-> "feeding",
                      remaining_ticks |-> ticks_for_minutes(FEED_EVENT_MIN, interval),
                      strength |-> 1000])
    ELSE evs

(* _maybe_start_event_per_tick; start is NoStart or the drawn [minutes, strength]
   of an aerator failure *)
maybe_start_event_per_tick(evs, mod, start, interval) ==
    LET e1 == feed_turn(evs, mod, FEED_TIMES_MIN[1], interval)
        e2 == feed_turn(e1, mod, FEED_TIMES_MIN[2], interval)
        e3 == feed_turn(e2, mod, FEED_TIMES_MIN[3], interval)
    IN  IF start # NoStart
        THEN Append(e3, [name |-> "aerator_failure",
                         remaining_ticks |-> ticks_for_minutes(start.minutes, interval),
                         strength |-> start.strength])
        ELSE e3

(* _update_bio_load without its max(0.0, ...) and min(2.0, ...) *)
update_bio_load_unbounded(bio, evs, interval) ==
    IF HasEvent(evs, "water_renewal")
    THEN bio - BIO_LOAD_RENEWAL_DROP
    ELSE bio + (10 * interval) \div 9

(* _update_bio_load, in millionths: 0.004 * (INTERVAL / 3600.0) is
   10 * INTERVAL / 9 millionths *)
update_bio_load(bio, evs, interval) ==
    IF HasEvent(evs, "water_renewal")
    THEN Max2(0, bio - BIO_LOAD_RENEWAL_DROP)
    ELSE Min2(BIO_LOAD_CAP, bio + (10 * interval) \div 9)

(* random.uniform(lo, hi) at the quantile of the step: q = -1 the end that
   raises oxygen and lowers turbidity, q = 1 the other end, q = 0 the middle *)
Uniform(lo, hi, q) == IF q = 1 THEN hi ELSE IF q = -1 THEN lo ELSE (lo + hi) \div 2

event_decay(t) == Max2(150, (1000 * t) \div Max2(1, t + 4))

(* the body of the loop of _apply_events_effects for one event *)
apply_event(ev, values, q) ==
    LET s == (ev.strength * event_decay(ev.remaining_ticks)) \div 1000
    IN  IF ev.name = "feeding"
        THEN [values EXCEPT
                !.turbidity = @ + 12 * s + Uniform(0, 4000, q),
                !.oxygen    = @ - (3 * s + Uniform(0, 1000, q)),
                !.ph        = @ - (30 * s) \div 1000]
        ELSE IF ev.name = "aerator_failure"
        THEN [values EXCEPT
                !.oxygen    = @ - (25 * s + Uniform(3000, 7000, q)),
                !.turbidity = @ + 3 * s + Uniform(0, 2000, q)]
        ELSE IF ev.name = "water_renewal"
        THEN [values EXCEPT
                !.turbidity   = @ - 10 * s,
                !.temperature = @ - (400 * s) \div 1000,
                !.ph          = @ - (20 * s) \div 1000]
        ELSE values

RECURSIVE apply_events_effects(_, _, _)
apply_events_effects(evs, values, q) ==
    IF evs = <<>> THEN values
    ELSE apply_events_effects(Tail(evs), apply_event(Head(evs), values, q), q)

(* _sensor_spike; problem is the metric random.choice picked; the sign
   random.choice picks for temperature and pH, and the size random.uniform
   picks for oxygen and turbidity, follow the quantile q of the step *)
sensor_spike(values, problem, q) ==
    IF problem = "temperature"
    THEN [values EXCEPT !.temperature = @ + (IF q = -1 THEN -4000 ELSE 4000)]
    ELSE IF problem = "ph"
    THEN [values EXCEPT !.ph = @ + (IF q = -1 THEN 1200 ELSE -1200)]
    ELSE IF problem = "oxygen"
    THEN [values EXCEPT !.oxygen = @ - Uniform(15000, 35000, q)]
    ELSE IF problem = "turbidity"
    THEN [values EXCEPT !.turbidity = @ + Uniform(45000, 90000, q)]
    ELSE values

(* approach() with the gain k taken as a whole number *)
approach_unscaled(prev, target, k, noise) == prev + k * (target - prev) + noise

(* approach() of generate_reading: k is in thousandths *)
approach(prev, target, k, noise) == prev + (k * (target - prev)) \div 1000 + noise

(* step "8) Limites fisicos" without its clamps *)
physical_limits_unclamped(v) == v

(* step "8) Limites fisicos" of generate_reading *)
physical_limits(v) ==
    [temperature |-> clamp(v.temperature, 0, 50000),
     ph          |-> clamp(v.ph, PH_CLAMP_LO, PH_CLAMP_HI),
     oxygen      |-> clamp(v.oxygen, 0, 100000),
     turbidity   |-> clamp(v.turbidity, 0, 200000)]

(* steps 2) to 8) of generate_reading: the values returned for state st with
   the events evs active; the noise of approach() is at quantile q with the
   sign that raises temperature and turbidity and lowers oxygen and pH *)
new_values(prof, st, bio, evs, minute_of_day_value, q, problem) ==
    LET cyc_temp == diurnal(minute_of_day_value, 900)
        cyc_o2   == diurnal(minute_of_day_value, 960)
        cyc_ph   == diurnal(minute_of_day_value, 900)
        temp_target == prof.temperature_base + (prof.temp_var * 7 * cyc_temp) \div 100000
        o2_target   == prof.oxygen_base + (prof.oxy_var * 7 * cyc_o2) \div 100000
                          - (3 * bio) \div 1000
        ph_target   == prof.ph_base + (prof.ph_var * 8 * cyc_ph) \div 100000
                          - (6 * bio) \div 100000
        turb_target == prof.turbidity_base
                          + (prof.turb_var * 5 * SinMinutes(minute_of_day_value % 1440)) \div 100000
                          + (8 * bio) \div 1000
        approached ==
            [temperature |-> approach(st.temperature, temp_target, 120, q * 150),
             ph          |-> approach(st.ph, ph_target, 100, (0 - q) * 30),
             oxygen      |-> approach(st.oxygen, o2_target, 150, (0 - q) * 1200),
             turbidity   |-> approach(st.turbidity, turb_target, 180, q * 1000)]
        evented == apply_events_effects(evs, approached, q)
        coupled1 == [evented EXCEPT !.oxygen =
                        @ - (350 * (evented.temperature - prof.temperature_base)) \div 1000]
        coupled == [coupled1 EXCEPT !.turbidity =
                        @ - (600 * (coupled1.ph - prof.ph_base)) \div 1000]
    IN  physical_limits(sensor_spike(coupled, problem, q))

-----------------------------------------------------------------------------
(* Simulator: inputs and start *)

SimTanks == {1, 5}

IntervalInputs == {1800}

WallMinutes == {0, 480}

NoiseQuantiles == {-1, 1}

SpikeInputs == {"temperature", "ph", "oxygen", "turbidity"}

(* the length and strength the rolls draw, at the quantile of the step *)
AeratorDraw(q) ==
    [minutes  |-> IF q = -1 THEN AERATOR_FAIL_MIN_LO ELSE AERATOR_FAIL_MIN_HI,
     strength |-> Uniform(600, 1000, q)]

WaterDraw(q) ==
    [minutes  |-> IF q = -1 THEN WATER_RENEW_MIN_HI ELSE WATER_RENEW_MIN_LO,
     strength |-> Uniform(500, 1000, 0 - q)]

EmptyTable == [t \in {} |-> 0]

SimStart ==
    /\ TANK_PROFILES = ConfiguredProfiles
    /\ TANK_STATE = EmptyTable
    /\ ACTIVE_EVENTS = EmptyTable
    /\ INTERVAL = 30
    /\ wall = [day |-> 1, minute |-> 0]
    /\ reading = [tank_id |-> 0]
    /\ used = [ticks |-> 0, spikes |-> 0, aerators |-> 0]

-----------------------------------------------------------------------------
(* Feed optimizer: fixed-point arithmetic *)
(* dosages g: thousandths of a gram; env multiplier, alpha, weights:        *)
(* thousandths; scores, logarithms and exponentials: ten-thousandths        *)

(* ln(y) for y = x8/8000 in [1, 2): 2*atanh(z), z = (y-1)/(y+1) *)
LnReduced(x8) ==
    LET z  == ((x8 - 8000) * 10000) \div (x8 + 8000)
        z2 == (z * z) \div 10000
        z3 == (z * z2) \div 10000
        z5 == (z3 * z2) \div 10000
        z7 == (z5 * z2) \div 10000
    IN  2 * (z + z3 \div 3 + z5 \div 5 + z7 \div 7)

(* ln(x8/8000) for x8/8000 >= 1: halve down to [1, 2), adding ln 2 each time *)
RECURSIVE Ln8(_)
Ln8(x8) == IF x8 >= 16000 THEN 6931 + Ln8(x8 \div 2) ELSE LnReduced(x8)

(* math.log1p(g) *)
log1p(g) == Ln8(8 * (1000 + g))

(* exp(-r) for r in [0, ln 2), by its Taylor polynomial up to r^6 *)
ExpNegReduced(r) ==
    LET r2 == (r * r) \div 10000
        r3 == (r2 * r) \div 10000
        r4 == (r3 * r) \div 10000
        r5 == (r4 * r) \div 10000
        r6 == (r5 * r) \div 10000
    IN  10000 - r + r2 \div 2 - r3 \div 6 + r4 \div 24 - r5 \div 120 + r6 \div 720

RECURSIVE Halve(_, _)
Halve(v, n) == IF n = 0 THEN v ELSE Halve(v \div 2, n - 1)

(* math.exp(-x), x >= 0 *)
ExpNeg(x) ==
    LET n == x \div 6931
    IN  IF n > 14 THEN 0 ELSE Halve(ExpNegReduced(x - n * 6931), n)

(* _clamp: max(lo, min(hi, x)) *)
ga_clamp(x, lo, hi) == Max2(lo, Min2(hi, x))

(* _range_score, in thousandths *)
range_score(x, lo, hi, soft) ==
    IF lo <= x /\ x <= hi THEN 1000
    ELSE ExpNeg((Min2(Abs(x - lo), Abs(x - hi)) * 10000) \div soft) \div 10

(* _env_multiplier, in thousandths *)
env_multiplier(e) ==
    LET s_temp == range_score(e.temp, temp_min, temp_max, 2500)
        s_ph   == range_score(e.ph, ph_min, ph_max, 600)
        s_oxy  == IF e.oxy <= 30000 THEN 100
                  ELSE IF e.oxy < oxygen_min
                  THEN 300 + (700 * (e.oxy - 30000)) \div Max2(oxygen_min - 30000, 1)
                  ELSE 800 + (200 * ga_clamp(((e.oxy - oxygen_min) * 1000) \div 30000,
                                             0, 1000)) \div 1000
        s_turb == IF e.turb <= 20000 THEN 1000
                  ELSE IF e.turb <= turbidez_max THEN 850
                  ELSE IF e.turb <= 100000 THEN 600 ELSE 350
        dens_s == IF e.dens <= 20000 THEN 1000
                  ELSE IF e.dens <= 25000 THEN 920
                  ELSE IF e.dens <= 35000 THEN 750
                  ELSE IF e.dens <= 50000 THEN 550 ELSE 400
    IN  ga_clamp((28 * s_temp + 18 * s_ph + 28 * s_oxy + 12 * s_turb + 14 * dens_s)
                     \div 100, 0, 1000)

(* _score_candidate for environment multiplier em *)
score_candidate(g0, em, c) ==
    LET g == ga_clamp(g0, c.min_g, c.max_g)
        ratio == ((g - c.sweet_g) * 10000) \div (c.max_g - c.sweet_g)
        waste_pen == IF g <= c.sweet_g THEN 0
                     ELSE (c.waste_weight * ((ratio * ratio) \div 10000)) \div 1000
    IN  (log1p(g) * em) \div 1000 - waste_pen

-----------------------------------------------------------------------------
(* Feed optimizer: configuration and the steps of optimize_feed *)

(* GAConfig(): the defaults of the dataclass, with the population, generation
   and patience counts of the model *)
BaseConfig ==
    [pop_size |-> 3, max_generations |-> MaxGenerations, tournament_k |-> 2,
     crossover_alpha_min |-> 150, crossover_alpha_max |-> 850,
     mutation_sigma |-> 250, elite_frac |-> 120, stagnation_patience |-> 1,
     seed |-> 42, min_g |-> 500, max_g |-> 5000, sweet_g |-> 2800,
     waste_weight |-> 1000]

(* -1e9, the score best_s starts from *)
BEST_S_START == -1000000000

(* elite_n = max(1, int(round(cfg.elite_frac * cfg.pop_size))) *)
elite_n(c) == Max2(1, RoundHalfEven(c.elite_frac * c.pop_size, 1000))

(* sorted(..., key=score, reverse=True): stable, best first *)
RECURSIVE InsertDesc(_, _)
InsertDesc(sorted, x) ==
    IF sorted = <<>> THEN <<x>>
    ELSE IF Head(sorted).s >= x.s THEN <<Head(sorted)>> \o InsertDesc(Tail(sorted), x)
    ELSE <<x>> \o sorted

RECURSIVE SortDesc(_)
SortDesc(xs) ==
    IF xs = <<>> THEN <<>>
    ELSE InsertDesc(SortDesc(SubSeq(xs, 1, Len(xs) - 1)), xs[Len(xs)])

scored_pop(pop, em, c) ==
    SortDesc([i \in 1..Len(pop) |-> [g |-> pop[i], s |-> score_candidate(pop[i], em, c)]])

(* max(pop, key=eval_score): the first candidate of maximal score *)
final_best(pop, em, c) ==
    pop[CHOOSE i \in 1..Len(pop) :
            /\ \A j \in 1..Len(pop) :
                  score_candidate(pop[j], em, c) <= score_candidate(pop[i], em, c)
            /\ \A j \in 1..(i - 1) :
                  score_candidate(pop[j], em, c) < score_candidate(pop[i], em, c)]

(* rnd.uniform(a, b) at quantile u (thousandths) *)
uniform(a, b, u) == a + ((b - a) * u) \div 1000

NoResult == [generations |-> -1]

(* the state of a run before its first statement *)
ga_new == [pc |-> "start", pop |-> <<>>, new_pop |-> <<>>, gen |-> 0,
           history |-> <<>>, stagnation |-> 0, best_g |-> -1,
           best_s |-> BEST_S_START, built |-> {}, error |-> "",
           result |-> NoResult]

(* line 170: the initial population from pop_size uniform draws; the loop is
   entered when max_generations > 0 *)
ga_start(r, c, init) ==
    LET pop == [i \in 1..c.pop_size |-> uniform(c.min_g, c.max_g, init[i])]
    IN  [r EXCEPT !.pop = pop,
                  !.built = Range(pop),
                  !.pc = IF c.max_generations > 0 THEN "evaluate" ELSE "finish"]

(* what history.append records, were it the generation's worst score *)
history_entry_worst(best_s, scored) == scored[Len(scored)].s

(* line 192: history.append(best_s) *)
history_entry(best_s, scored) == best_s

(* the end of a loop turn, were range(...) to yield one generation more *)
next_generation_one_more(r, c) ==
    [r EXCEPT !.pop = r.new_pop,
              !.new_pop = <<>>,
              !.gen = r.gen + 1,
              !.pc = IF r.gen + 1 <= c.max_generations THEN "evaluate" ELSE "finish"]

(* the end of a loop turn: pop = new_pop and the next gen of range(...) *)
next_generation(r, c) ==
    [r EXCEPT !.pop = r.new_pop,
              !.new_pop = <<>>,
              !.gen = r.gen + 1,
              !.pc = IF r.gen + 1 < c.max_generations THEN "evaluate" ELSE "finish"]

(* the test of the while loop, off by one *)
needs_child_off_by_one(new_pop, c) == Len(new_pop) <= c.pop_size

(* line 204: while len(new_pop) < cfg.pop_size *)
needs_child(new_pop, c) == Len(new_pop) < c.pop_size

(* lines 184-197 (and 212 when the elites fill the population); the margin
   1e-9 of line 186 is below the resolution of the scores, so the test is > *)
ga_evaluate(r, em, c) ==
    IF r.pop = <<>> THEN [r EXCEPT !.pc = "error", !.error = "IndexError"]
    ELSE
    LET scored   == scored_pop(r.pop, em, c)
        improved == scored[1].s > r.best_s
        best_g   == IF improved THEN scored[1].g ELSE r.best_g
        best_s   == IF improved THEN scored[1].s ELSE r.best_s
        stagn    == IF improved THEN 0 ELSE r.stagnation + 1
        r1 == [r EXCEPT !.best_g = best_g, !.best_s = best_s,
                        !.stagnation = stagn,
                        !.history = Append(@, history_entry(best_s, scored))]
        elites == [i \in 1..Min2(elite_n(c), Len(scored)) |-> scored[i].g]
        r2 == [r1 EXCEPT !.new_pop = elites, !.pc = "breed"]
    IN  IF stagn >= c.stagnation_patience THEN [r1 EXCEPT !.pc = "finish"]
        ELSE IF needs_child(elites, c) THEN r2
        ELSE next_generation(r2, c)

(* tournament_pick: a, b = rnd.sample(pop, k); the fitter, a on a tie *)
tournament_pick(pop, em, c, ab) ==
    IF score_candidate(pop[ab[1]], em, c) >= score_candidate(pop[ab[2]], em, c)
    THEN pop[ab[1]] ELSE pop[ab[2]]

(* lines 204-212: one turn of the while loop; d holds the draws of the turn *)
ga_breed(r, em, c, d) ==
    IF c.tournament_k > Len(r.pop) \/ c.tournament_k # 2
    THEN [r EXCEPT !.pc = "error", !.error = "ValueError"]
    ELSE
    LET p1 == tournament_pick(r.pop, em, c, d.pick1)
        p2 == tournament_pick(r.pop, em, c, d.pick2)
        alpha == uniform(c.crossover_alpha_min, c.crossover_alpha_max, d.alpha)
        child == ga_clamp((alpha * p1 + (1000 - alpha) * p2) \div 1000
                              + d.gauss * c.mutation_sigma,
                          c.min_g, c.max_g)
        r1 == [r EXCEPT !.new_pop = Append(@, child), !.built = @ \cup {child}]
    IN  IF needs_child(r1.new_pop, c) THEN r1 ELSE next_generation(r1, c)

(* lines 214-217 without the final comparison *)
final_choice_loop_only(r, em, c) == [g |-> r.best_g, s |-> r.best_s]

(* lines 214-217: the final population against the best of the loop *)
final_choice(r, em, c) ==
    LET fb == final_best(r.pop, em, c)
        fs == score_candidate(fb, em, c)
    IN  IF fs > r.best_s THEN [g |-> fb, s |-> fs] ELSE [g |-> r.best_g, s |-> r.best_s]

(* lines 214-238 *)
ga_finish(r, em, c) ==
    IF r.pop = <<>> THEN [r EXCEPT !.pc = "error", !.error = "ValueError"]
    ELSE
    LET best == final_choice(r, em, c)
    IN  [r EXCEPT !.pc = "done",
                  !.best_g = best.g, !.best_s = best.s,
                  !.result = [grams_per_fish |-> best.g,
                              score          |-> best.s,
                              history        |-> r.history,
                              converged      |-> Len(r.history) < c.max_generations,
                              generations    |-> Len(r.history)]]

-----------------------------------------------------------------------------
(* Feed plan: recommend_feed_plan *)
(* weights in grams, feed rates in tenths of a percent, dosages in
   thousandths of a gram; per-meal amounts in sixths of a thousandth of a
   gram, so that a split over 1, 2 or 3 meals is exact *)

(* lines 262-269: base feed rate by weight *)
base_feed_rate(w) ==
    IF w < 20 THEN 45
    ELSE IF w < 50 THEN 30
    ELSE IF w < 100 THEN 22
    ELSE IF w < 250 THEN 16
    ELSE IF w < 500 THEN 12
    ELSE IF w < 1000 THEN 10 ELSE 8

(* lines 301-309: the meal slots (hour, label) by environment multiplier *)
meal_slots(em) ==
    IF em >= 850 THEN <<[hour |-> 8, label |-> "manha"], [hour |-> 14, label |-> "tarde"],
                        [hour |-> 20, label |-> "noite"]>>
    ELSE IF em >= 600 THEN <<[hour |-> 9, label |-> "manha"], [hour |-> 18, label |-> "tarde"]>>
    ELSE <<[hour |-> 9, label |-> "manha"]>>

(* line 330: per_meal * fish_count *)
meal_count(fish_count) == fish_count

(* lines 262-347; g_ga is optimize_feed's grams_per_fish when use_ga *)
feed_plan_of(fish_count, weight_g, e, use_ga, g_ga) ==
    LET w        == Max2(10, weight_g)
        base_fr  == base_feed_rate(w)
        em       == env_multiplier(e)
        adjusted == (base_fr * em) \div 1000
        g_table  == (base_fr * em * w) \div 1000
        blended  == IF use_ga THEN (6 * g_ga + 4 * g_table) \div 10 ELSE g_table
        grams    == Max2(100, Min2(10000, blended))
        slots    == meal_slots(em)
        per_meal == (6 * grams) \div Len(slots)
    IN  [grams_per_fish |-> grams,
         total_grams |-> grams * Max2(0, fish_count),
         base_feed_rate_percent |-> base_fr,
         adjusted_feed_rate_percent |-> adjusted,
         env_multiplier |-> em,
         meals |-> [i \in 1..Len(slots) |->
                       [hour |-> slots[i].hour, label |-> slots[i].label,
                        grams_per_fish |-> per_meal,
                        total_grams |-> per_meal * meal_count(fish_count)]],
         per_meal_grams_per_fish |-> per_meal]

NoPlan == [fish_count |-> 0, weight_g |-> 0, use_ga |-> FALSE, out |-> [meals |-> <<>>]]

(* fish_count and weight (grams) of the call; nothing checks them *)
FishCounts == {-5, 0, 7, 100}

WeightInputs == {5, 100, 1200}

-----------------------------------------------------------------------------
(* Feed optimizer: inputs and start *)

(* configurations a caller can build: GAConfig checks nothing *)
GAConfigs ==
    { BaseConfig,
      [BaseConfig EXCEPT !.elite_frac = 500],
      [BaseConfig EXCEPT !.pop_size = 1, !.elite_frac = 0],
      [BaseConfig EXCEPT !.pop_size = 2, !.elite_frac = 1000],
      [BaseConfig EXCEPT !.min_g = 5000, !.max_g = 500],
      [BaseConfig EXCEPT !.pop_size = 2, !.elite_frac = 1500] }

(* min_g >= max_g, or more elites than candidates *)
StructurallyInvalid(c) == c.min_g >= c.max_g \/ elite_n(c) > c.pop_size

(* temperature, ph, oxygen, turbidity, density of the call *)
EnvInputs ==
    { [temp |-> 26000, ph |-> 7200, oxy |-> 100000, turb |-> 15000, dens |-> 10000],
      [temp |-> 31000, ph |-> 6000, oxy |-> 50000, turb |-> 60000, dens |-> 40000] }

(* quantiles of rnd.uniform for the initial dosages, in thousandths *)
InitQuantiles == {0, 500, 1000}

(* quantiles of rnd.uniform for alpha, in thousandths *)
AlphaQuantiles == {0, 1000}

(* rnd.gauss(0, sigma), in sigmas *)
GaussDraws == {-1, 1}

(* rnd.sample(pop, 2): two distinct positions, in the order drawn; nothing is
   drawn from a population too small to sample *)
Samples(n) ==
    IF n < 2 THEN {<<>>}
    ELSE {p \in (1..n) \X (1..n) : p[1] # p[2]}

InitDraws(c) == [1..c.pop_size -> InitQuantiles]

ChildDraws(n) ==
    [pick1 : Samples(n), pick2 : Samples(n), alpha : AlphaQuantiles, gauss : GaussDraws]

(* the draws of a second run, were its generator not built from the seed *)
second_run_draws_unseeded(d, all) == all

(* line 168: rnd = random.Random(cfg.seed); every draw of the run is taken from
   rnd, so a second run with the same seed draws what the first drew *)
second_run_draws(d, all) == {d}

GAStart ==
    /\ cfg = BaseConfig
    /\ env = [temp |-> 26000, ph |-> 7200, oxy |-> 100000, turb |-> 15000, dens |-> 10000]
    /\ run = ga_new
    /\ rerun = ga_new
    /\ feed_plan = NoPlan

-----------------------------------------------------------------------------
(* SensorReading construction *)

(* __post_init__ with the bounds taken as exclusive *)
post_init_exclusive(r) ==
    IF ~(TEMP_MIN_HARD < r.temperatura /\ r.temperatura < TEMP_MAX_HARD)
    THEN "Temperatura invalida"
    ELSE IF ~(PH_MIN_HARD < r.ph /\ r.ph < PH_MAX_HARD) THEN "pH invalido"
    ELSE IF ~(OXY_MIN_HARD < r.oxigenio /\ r.oxigenio < OXY_MAX_HARD)
    THEN "Oxigenio invalido"
    ELSE IF ~(TURB_MIN_HARD < r.turbidez /\ r.turbidez < TURB_MAX_HARD)
    THEN "Turbidez invalida"
    ELSE "ok"

(* __post_init__, lines 48-65: the message of the ValueError raised, or "ok" *)
post_init(r) ==
    IF ~(TEMP_MIN_HARD <= r.temperatura /\ r.temperatura <= TEMP_MAX_HARD)
    THEN "Temperatura invalida"
    ELSE IF ~(PH_MIN_HARD <= r.ph /\ r.ph <= PH_MAX_HARD) THEN "pH invalido"
    ELSE IF ~(OXY_MIN_HARD <= r.oxigenio /\ r.oxigenio <= OXY_MAX_HARD)
    THEN "Oxigenio invalido"
    ELSE IF ~(TURB_MIN_HARD <= r.turbidez /\ r.turbidez <= TURB_MAX_HARD)
    THEN "Turbidez invalida"
    ELSE "ok"

(* values a caller can pass to SensorReading(...): each metric below, at,
   inside, at and above its hard limits *)
HardInputs ==
    [temperatura : {-1, 0, 26000, 50000, 50001},
     ph          : {-1, 0, 7200, 14000, 14001},
     oxigenio    : {-1, 0, 80000, 100000, 100001},
     turbidez    : {-1, 0, 20000, 200000, 200001}]

(* values generate_reading has before its step 8: each metric below, inside
   and above the range it is clamped to *)
RawInputs ==
    [temperature : {-3000, 26000, 52000},
     ph          : {3000, 7200, 11000},
     oxygen      : {-5000, 80000, 104000},
     turbidity   : {-2000, 20000, 230000}]

ReadingStart == constructed = [source |-> "none"]

-----------------------------------------------------------------------------
(* Environment multiplier: calls of _env_multiplier *)

(* temperature, ph, oxygen, turbidity, density passed to _env_multiplier *)
MultiplierInputs ==
    [temp : {22000, 26000, 29000, 33000},
     ph   : {5500, 6000, 7200, 9000},
     oxy  : {25000, 50000, 69000, 70000, 100000},
     turb : {15000, 40000, 80000, 150000},
     dens : {10000, 22000, 40000, 60000}]

EnvMetrics == {"temp", "ph", "oxy", "turb", "dens"}

NoCall == [made |-> FALSE]

MultiplierStart == env_call = [prev |-> NoCall, cur |-> NoCall]

-----------------------------------------------------------------------------
(* OptimizeFeedUseCase *)
(* predicted weights in ten-thousandths of a kilogram; dosages before
   rounding in ten-thousandths of a gram; the saved grams_per_fish in
   hundredths and the saved total_grams in tenths of a gram *)

(* the tank repository: capacity in litres and fish count per tank id *)
TankTable ==
    (1 :> [capacidade |-> 2000, quantidade_peixes |-> 60]) @@
    (2 :> [capacidade |-> 500, quantidade_peixes |-> 7])

(* tank ids passed to execute; 9 is in no repository *)
FeedTanks == {1, 2, 9}

(* the weight predictor of the use case: none injected, or one returning
   0.1234 kg *)
PredictorInputs == {[injected |-> FALSE], [injected |-> TRUE, kg |-> 1234]}

(* line 82: SensorReading(tank_id, 26.0, 7.2, 80.0, 20.0) *)
NeutralReading(tid) ==
    [tank_id |-> tid, temperatura |-> 26000, ph |-> 7200,
     oxigenio |-> 80000, turbidez |-> 20000, timestamp |-> 0]

(* SensorReading.status_geral_severity *)
status_geral_severity(r) ==
    LET s == Range([i \in 1..Len(MetricKeys) |-> sev_map(r)[MetricKeys[i]]])
    IN  IF "CRITICAL" \in s THEN "CRITICAL"
        ELSE IF "WARNING" \in s THEN "WARNING" ELSE "NORMAL"

(* lines 104-112 without the reducers *)
reduced_never(g, sev) == g

(* lines 104-112: 10% off on WARNING, 30% off on CRITICAL *)
reduced(g, sev) ==
    IF sev = "WARNING" THEN (g * 90) \div 100
    ELSE IF sev = "CRITICAL" THEN (g * 70) \div 100
    ELSE g

(* lines 79-123: the row execute saves for tank tid holding fish_count fish,
   from the reading last_for_tank returned, at time ts *)
feed_row(tid, fish_count, last, predictor, ts) ==
    LET r       == IF last = NoReading THEN NeutralReading(tid) ELSE last
        peso    == IF predictor.injected THEN predictor.kg ELSE 1000
        sev     == status_geral_severity(r)
        grams   == reduced(Max2(1000, peso * 20), sev)
    IN  [tank_id          |-> tid,
         grams_per_fish   |-> RoundHalfEven(grams, 100),
         total_grams      |-> RoundHalfEven(grams * fish_count, 1000),
         algorithm        |-> "RF|baseline",
         recommended_time |-> ts,
         notes            |-> IF sev = "WARNING" THEN "reducao 10% por alerta"
                              ELSE IF sev = "CRITICAL" THEN "reducao 30% por critico"
                              ELSE "condicoes normais"]

FeedStart ==
    /\ feed_recommendations = <<>>
    /\ feed_calls = <<>>

-----------------------------------------------------------------------------
(* Actions of the alerting machine *)

(* the dashboard (run.py) and the stand-alone simulator loop *)
Processes == {"dashboard", "simulator"}

(* a process outside of execute *)
Idle == [pc |-> "idle"]

AlertStart ==
    /\ sensor_readings = <<>>
    /\ alerts = <<>>
    /\ now = 0
    /\ lastCall = [op |-> "none", tank_id |-> 0, alerts |-> <<>>]
    /\ inflight = [p \in Processes |-> Idle]

(* sensor_simulator.main loop body: build the reading, monitor.execute(reading) *)
Execute(tid, v) ==
    LET ts   == now + 1
        r    == MkReading(tid, v, ts)
        prev == last_for_tank(sensor_readings, tid)
        new  == execute_alerts(prev, r, ts)
    IN  /\ Len(sensor_readings) < MaxReadings
        /\ ValidReading(r)
        /\ now' = ts
        /\ sensor_readings' = Append(sensor_readings, r)
        /\ alerts' = alerts \o new
        /\ lastCall' = [op |-> "execute", tank_id |-> tid, alerts |-> new]
        /\ UNCHANGED <<inflight, simVars, gaVars, entityVars, probeVars, feedVars>>

(* run.py simulate_and_process: execute, then resolve what is back to NORMAL *)
SimulateAndProcess(tid, v) ==
    LET ts   == now + 1
        r    == MkReading(tid, v, ts)
        prev == last_for_tank(sensor_readings, tid)
        new  == execute_alerts(prev, r, ts)
    IN  /\ Len(sensor_readings) < MaxReadings
        /\ ValidReading(r)
        /\ now' = ts
        /\ sensor_readings' = Append(sensor_readings, r)
        /\ alerts' = resolve_normal_metrics(alerts \o new, r, ts)
        /\ lastCall' = [op |-> "simulate_and_process", tank_id |-> tid, alerts |-> new]
        /\ UNCHANGED <<inflight, simVars, gaVars, entityVars, probeVars, feedVars>>

AlertNext ==
    \/ \E tid \in AlertTanks, v \in ReadingInputs : Execute(tid, v)
    \/ \E tid \in AlertTanks, v \in ReadingInputs : SimulateAndProcess(tid, v)

AlertInit == AlertStart /\ SimStart /\ GAStart /\ ReadingStart /\ MultiplierStart
             /\ FeedStart

SpecAlert == AlertInit /\ [][AlertNext]_vars

-----------------------------------------------------------------------------
(* Properties of the alerting machine *)

LastRows == TankRows(sensor_readings, lastCall.tank_id)

OpenAlerts(tid, key) ==
    {i \in 1..Len(alerts) :
        alerts[i].tank_id = tid /\ alerts[i].alert_type = key /\ ~alerts[i].resolved}

(* the metrics whose severity in the newest stored reading of the tank is
   non-NORMAL and differs from the one before it (none stored: NORMAL) *)
TransitionedMetrics(rows) ==
    LET n == Len(rows)
    IN  {k \in Range(MetricKeys) :
            /\ sev_map(rows[n])[k] # "NORMAL"
            /\ sev_map(rows[n])[k] #
                   (IF n = 1 THEN "NORMAL" ELSE sev_map(rows[n - 1])[k])}

(* C1: execute creates (returns and saves) an alert for a metric exactly when
   the metric's severity in the current reading is non-NORMAL and differs from
   its severity in the tank's previous stored reading, a tank without stored
   reading counting as NORMAL; no alert for a NORMAL or unchanged metric. *)
C1_AlertExactlyOnTransition ==
    lastCall.op # "none" =>
        LET rows == LastRows
            cur  == rows[Len(rows)]
            made == lastCall.alerts
        IN  /\ {made[i].alert_type : i \in 1..Len(made)} = TransitionedMetrics(rows)
            /\ Len(made) = Cardinality(TransitionedMetrics(rows))
            /\ \A i \in 1..Len(made) : made[i].tank_id = lastCall.tank_id
            /\ SelectSeq(alerts, LAMBDA a : a.created_at = cur.timestamp) = made

(* C1 witness: a tank's first reading is already low on oxygen and got its
   alert; the next reading is still low and execute created nothing for it *)
C1_Witness ==
    /\ lastCall.op = "execute"
    /\ Len(LastRows) = 2
    /\ status_oxigenio(LastRows[1]) = "WARNING"
    /\ status_oxigenio(LastRows[2]) = "WARNING"
    /\ lastCall.alerts = <<>>
    /\ \E i \in 1..Len(alerts) :
          /\ alerts[i].alert_type = "oxygen"
          /\ alerts[i].tank_id = lastCall.tank_id
          /\ alerts[i].created_at = LastRows[1].timestamp

AlertsInRun(tid, key, rows, i, j) ==
    {a \in 1..Len(alerts) :
        /\ alerts[a].tank_id = tid
        /\ alerts[a].alert_type = key
        /\ \E m \in i..j : alerts[a].created_at = rows[m].timestamp}

(* C2: over the readings passed one after another for one tank, at most one
   alert is created per metric per uninterrupted run of consecutive readings in
   which the metric is non-NORMAL. *)
C2_OneAlertPerRun ==
    \A tid \in AlertTanks, key \in Range(MetricKeys) :
        LET rows == TankRows(sensor_readings, tid)
        IN  \A i \in 1..Len(rows), j \in 1..Len(rows) :
                (i <= j /\ \A m \in i..j : sev_map(rows[m])[key] # "NORMAL")
                    => Cardinality(AlertsInRun(tid, key, rows, i, j)) <= 1

(* C2 witness: three consecutive turbid readings of one tank, one alert *)
C2_Witness ==
    \E tid \in AlertTanks :
        LET rows == TankRows(sensor_readings, tid)
        IN  /\ Len(rows) = 3
            /\ \A m \in 1..3 : status_turbidez(rows[m]) = "WARNING"
            /\ Cardinality(AlertsInRun(tid, "turbidity", rows, 1, 3)) = 1

NormalMetricsHaveNoOpenAlert ==
    \A key \in Range(MetricKeys) :
        sev_map(LastRows[Len(LastRows)])[key] = "NORMAL"
            => OpenAlerts(lastCall.tank_id, key) = {}

(* C3 as claimed: whenever the alerting machine has processed a reading whose
   severity for a metric is NORMAL, no alert of that tank and metric is open *)
C3_ExecuteResolvesOnNormal ==
    lastCall.op # "none" => NormalMetricsHaveNoOpenAlert

(* a resolved alert keeps its resolution; execute on its own resolves nothing *)
ResolutionStep ==
    /\ Len(alerts') >= Len(alerts)
    /\ \A i \in 1..Len(alerts) :
          /\ alerts[i].resolved =>
                /\ alerts'[i].resolved
                /\ alerts'[i].resolved_at = alerts[i].resolved_at
          /\ lastCall'.op = "execute" => alerts'[i] = alerts[i]
    /\ \A i \in 1..Len(alerts') : alerts'[i].resolved <=> alerts'[i].resolved_at # 0

(* C3 amended: when simulate_and_process (execute followed by its
   resolve-on-NORMAL step) has processed a reading whose severity for a metric
   is NORMAL, every alert of that tank and metric is resolved, with its
   resolved timestamp set exactly once; execute on its own resolves nothing. *)
C3_DashboardPathResolvesOnNormal ==
    /\ [](lastCall.op = "simulate_and_process" => NormalMetricsHaveNoOpenAlert)
    /\ [][ResolutionStep]_vars

(* C3 witness: the dashboard path has just resolved an alert raised earlier *)
C3_Witness ==
    /\ lastCall.op = "simulate_and_process"
    /\ \E i \in 1..Len(alerts) :
          /\ alerts[i].tank_id = lastCall.tank_id
          /\ alerts[i].resolved
          /\ alerts[i].resolved_at = now
          /\ alerts[i].created_at < now
          /\ sev_map(LastRows[Len(LastRows)])[alerts[i].alert_type] = "NORMAL"

-----------------------------------------------------------------------------
(* Actions of the simulator *)

(* main(): INTERVAL = max(1, int(args.interval)), before the first reading *)
main_set_interval(i) ==
    /\ DOMAIN TANK_STATE = {}
    /\ INTERVAL # Max2(1, i)
    /\ INTERVAL' = Max2(1, i)
    /\ UNCHANGED <<TANK_PROFILES, TANK_STATE, ACTIVE_EVENTS, wall, reading, used>>
    /\ UNCHANGED <<alertVars, gaVars, entityVars, probeVars, feedVars>>

(* the local clock never runs backwards *)
LaterWall(w) ==
    \/ w.day = wall.day /\ w.minute >= wall.minute
    \/ w.day = wall.day + 1

(* generate_reading(tank_id, minute_of_day(now_local)) at local time w; q is
   the quantile of the uniform draws, problem the sensor spike ("none": no
   spike), aerator and water tell whether the rolls start an event *)
generate_reading_within(budget, tid, w, q, problem, aerator, water) ==
    /\ used.ticks < budget
    /\ LaterWall(w)
    /\ problem # "none" => used.spikes < MaxSpikes
    /\ aerator => used.aerators < MaxAeratorFailures
    /\ LET profiles == ensure_profile(TANK_PROFILES, tid)
           prof     == profiles[tid]
           states   == ensure_state(TANK_STATE, prof, tid)
       IN  \E st \in {states[tid]} :
           \E evs3 \in {maybe_start_event_per_tick(
                            maybe_start_event_daily(
                                decay_events(ensure_events(ACTIVE_EVENTS, tid)[tid]),
                                st.last_day_idx, w.day,
                                IF water THEN WaterDraw(q) ELSE NoStart, INTERVAL),
                            w.minute,
                            IF aerator THEN AeratorDraw(q) ELSE NoStart, INTERVAL)} :
           \E bio \in {update_bio_load(st.bio_load, evs3, INTERVAL)} :
           \E vals \in {new_values(prof, st, bio, evs3, w.minute, q, problem)} :
           /\ water => st.last_day_idx # w.day
           /\ wall' = w
           /\ TANK_PROFILES' = profiles
           /\ ACTIVE_EVENTS' = put_events(ACTIVE_EVENTS, tid, evs3)
           /\ TANK_STATE' = [t \in DOMAIN states |->
                                IF t = tid
                                THEN [temperature  |-> vals.temperature,
                                      ph           |-> vals.ph,
                                      oxygen       |-> vals.oxygen,
                                      turbidity    |-> vals.turbidity,
                                      tick         |-> st.tick + 1,
                                      bio_load     |-> bio,
                                      last_day_idx |-> w.day]
                                ELSE states[t]]
           /\ reading' = [tank_id |-> tid, temperature |-> vals.temperature,
                          ph |-> vals.ph, oxygen |-> vals.oxygen,
                          turbidity |-> vals.turbidity]
           /\ used' = [ticks    |-> used.ticks + 1,
                       spikes   |-> used.spikes + (IF problem = "none" THEN 0 ELSE 1),
                       aerators |-> used.aerators + (IF aerator THEN 1 ELSE 0)]
           /\ INTERVAL' = INTERVAL
           /\ UNCHANGED <<alertVars, gaVars, entityVars, probeVars, feedVars>>

(* generate_reading in a run of at most MaxTicks steps *)
generate_reading(tid, w, q, problem, aerator, water) ==
    generate_reading_within(MaxTicks, tid, w, q, problem, aerator, water)

SimNext ==
    \/ \E i \in IntervalInputs : main_set_interval(i)
    \/ \E tid \in SimTanks, d \in 1..MaxDay, m \in WallMinutes,
          q \in NoiseQuantiles,
          problem \in SpikeInputs \cup {"none"},
          aerator \in BOOLEAN, water \in BOOLEAN :
            generate_reading(tid, [day |-> d, minute |-> m], q, problem, aerator, water)

SpecSim == AlertInit /\ [][SimNext]_vars

(* C4: after any sequence of generate_reading calls, with any active events,
   noise draws and sensor spikes, every returned reading has temperature in
   [0, 50], pH in [0, 14], oxygen in [0, 100] and turbidity in [0, 200]. *)
C4_ReadingWithinHardBounds ==
    reading.tank_id # 0 =>
        /\ 0 <= reading.temperature /\ reading.temperature <= TEMP_MAX_HARD
        /\ 0 <= reading.ph /\ reading.ph <= PH_MAX_HARD
        /\ 0 <= reading.oxygen /\ reading.oxygen <= OXY_MAX_HARD
        /\ 0 <= reading.turbidity /\ reading.turbidity <= TURB_MAX_HARD

(* C5: in every reachable simulator state the active event list of each tank
   holds at most one event named feeding. *)
C5_AtMostOneFeeding ==
    \A t \in DOMAIN ACTIVE_EVENTS :
        Cardinality({i \in 1..Len(ACTIVE_EVENTS[t]) :
                        ACTIVE_EVENTS[t][i].name = "feeding"}) <= 1

(* C4 witness: an aerator failure and an oxygen spike have pushed the raw
   oxygen value below zero, and the reading returned holds the clamped 0 *)
C4_Witness ==
    /\ reading.tank_id # 0
    /\ reading.oxygen = 0
    /\ used.spikes = 1
    /\ HasEvent(ACTIVE_EVENTS[reading.tank_id], "aerator_failure")

FeedingTicks == ticks_for_minutes(FEED_EVENT_MIN, INTERVAL)

(* C5 witness: a tank stepped inside the 08:00 window while the feeding event
   started by its previous step (also inside the window) is still active; the
   list holds that one feeding event *)
C5_Witness ==
    /\ reading.tank_id # 0
    /\ Abs(wall.minute - FEED_TIMES_MIN[1]) <= FEED_WINDOW_MIN
    /\ LET evs == ACTIVE_EVENTS[reading.tank_id]
       IN  /\ TANK_STATE[reading.tank_id].tick >= 2
           /\ Cardinality({i \in 1..Len(evs) : evs[i].name = "feeding"}) = 1
           /\ \E i \in 1..Len(evs) :
                 /\ evs[i].name = "feeding"
                 /\ evs[i].remaining_ticks = FeedingTicks - 1

(* what the tables hold for tank t: its profile, state and event list, or
   their absence *)
TankEntry(profiles, states, events, t) ==
    [profile |-> IF t \in DOMAIN profiles THEN <<profiles[t]>> ELSE <<>>,
     state   |-> IF t \in DOMAIN states THEN <<states[t]>> ELSE <<>>,
     events  |-> IF t \in DOMAIN events THEN <<events[t]>> ELSE <<>>]

AllTanks == DOMAIN ConfiguredProfiles \cup SimTanks

(* C13: a generate_reading step for tank A leaves the state, the active event
   list and the profile of every other tank B as they were, so each tank's
   sequence of states is that of its own steps whatever the interleaving. *)
C13_StepLeavesOtherTanksAlone ==
    [][used'.ticks # used.ticks =>
          \A B \in AllTanks \ {reading'.tank_id} :
              TankEntry(TANK_PROFILES', TANK_STATE', ACTIVE_EVENTS', B)
                  = TankEntry(TANK_PROFILES, TANK_STATE, ACTIVE_EVENTS, B)]_vars

(* tank 5 has just been stepped after tank 1 was stepped twice through a
   feeding window: tank 1 holds its own state and its own, older event *)
C13_Witness ==
    /\ reading.tank_id = 5
    /\ 1 \in DOMAIN TANK_STATE
    /\ TANK_STATE[1].tick = 2
    /\ TANK_STATE[5].tick = 1
    /\ HasEvent(ACTIVE_EVENTS[1], "feeding")
    /\ ACTIVE_EVENTS[1] # ACTIVE_EVENTS[5]

-----------------------------------------------------------------------------
(* Simulator with an event placed in a tank's active list *)

(* Event("aerator_failure", remaining_ticks=5, strength=1.0) *)
ForcedEvent == [name |-> "aerator_failure", remaining_ticks |-> 5, strength |-> 1000]

(* ACTIVE_EVENTS[tid].append(Event(...)) between two steps of a tank that has
   already returned a reading *)
force_event(tid) ==
    /\ tid \in DOMAIN TANK_STATE
    /\ tid \in DOMAIN ACTIVE_EVENTS
    /\ ~HasEvent(ACTIVE_EVENTS[tid], "aerator_failure")
    /\ used.ticks < MaxTicks
    /\ ACTIVE_EVENTS' = put_events(ACTIVE_EVENTS, tid,
                                   Append(ACTIVE_EVENTS[tid], ForcedEvent))
    /\ UNCHANGED <<TANK_PROFILES, TANK_STATE, INTERVAL, wall, reading, used>>
    /\ UNCHANGED <<alertVars, gaVars, entityVars, probeVars, feedVars>>

ForcedNext ==
    \/ \E tid \in SimTanks : force_event(tid)
    \/ \E tid \in SimTanks, d \in 1..MaxDay, m \in WallMinutes,
          q \in NoiseQuantiles,
          problem \in SpikeInputs \cup {"none"},
          aerator \in BOOLEAN, water \in BOOLEAN :
            generate_reading(tid, [day |-> d, minute |-> m], q, problem, aerator, water)

SpecForced == AlertInit /\ [][ForcedNext]_vars

(* the step is a generate_reading of a tank whose list holds the placed event,
   not yet decremented *)
StepsWithForcedEvent(tid) ==
    /\ used'.ticks # used.ticks
    /\ reading'.tank_id = tid
    /\ tid \in DOMAIN TANK_STATE
    /\ tid \in DOMAIN ACTIVE_EVENTS
    /\ \E i \in 1..Len(ACTIVE_EVENTS[tid]) : ACTIVE_EVENTS[tid][i] = ForcedEvent

(* C17: with an aerator_failure of strength 1.0 and remaining_ticks 5 placed in
   a tank's list, the next generate_reading step returns an oxygen at least 20
   points below the oxygen of the tank's reading before the event, whatever
   the draws. *)
C17_ForcedFailureDropsTwenty ==
    [][\A tid \in SimTanks :
          StepsWithForcedEvent(tid) =>
              reading'.oxygen <= TANK_STATE[tid].oxygen - 20000]_vars

-----------------------------------------------------------------------------
(* Simulator: two consecutive steps of tank 1, one minute apart *)

PairMinutes == {0, 1}

PairNext ==
    \E m \in PairMinutes, q \in NoiseQuantiles,
       problem \in SpikeInputs \cup {"none"},
       aerator \in BOOLEAN, water \in BOOLEAN :
         generate_reading(1, [day |-> 1, minute |-> m], q, problem, aerator, water)

SpecPair == AlertInit /\ [][PairNext]_vars

(* the step is the second generate_reading of tank 1, at minute 1, after the
   first one at minute 0 *)
SecondStepOfPair ==
    /\ used'.ticks # used.ticks
    /\ reading'.tank_id = 1
    /\ 1 \in DOMAIN TANK_STATE
    /\ TANK_STATE[1].tick = 1
    /\ wall.minute = 0
    /\ wall'.minute = 1

(* the four differences between the reading of the step and the one before *)
WithinPairLimits ==
    /\ Abs(reading'.temperature - reading.temperature) < 3000
    /\ Abs(reading'.ph - reading.ph) < 800
    /\ Abs(reading'.oxygen - reading.oxygen) < 20000
    /\ Abs(reading'.turbidity - reading.turbidity) < 40000

(* C18 as stated: for a fresh tank 1 (baseline temperature 26.0, variance
   2.0), the readings of the steps at minute 0 and minute 1 differ by less
   than 3.0 in temperature, 0.8 in pH, 20.0 in oxygen and 40.0 in turbidity,
   whatever the draws of the two steps. *)
C18_NoJumpAnyDraw ==
    [][SecondStepOfPair => WithinPairLimits]_vars

(* C18: the same bounds hold when the second step draws no sensor spike and
   applies no aerator failure (none started by either step), whatever the
   other draws of the two steps (a spike or a water renewal in the first step
   included). *)
C18_NoJumpWithoutSpike ==
    [][(/\ SecondStepOfPair
        /\ used'.spikes = used.spikes
        /\ ~HasEvent(ACTIVE_EVENTS'[1], "aerator_failure")) => WithinPairLimits]_vars

(* tank 1 has been stepped twice, the second time at minute 1, the first step
   started a water renewal, no step drew a spike and no aerator failed *)
C18_Witness ==
    /\ reading.tank_id = 1
    /\ TANK_STATE[1].tick = 2
    /\ wall.minute = 1
    /\ used.spikes = 0
    /\ used.aerators = 0
    /\ \E i \in 1..Len(ACTIVE_EVENTS[1]) :
          /\ ACTIVE_EVENTS[1][i].name = "water_renewal"
          /\ ACTIVE_EVENTS[1][i].remaining_ticks
                = ticks_for_minutes(WATER_RENEW_MIN_HI, INTERVAL) - 1



(* the values a step of tank 1 would have stored and returned had it drawn no
   sensor spike, for the noise quantile q *)
UnspikedValues(q) ==
    LET prof == ensure_profile(TANK_PROFILES, 1)[1]
        st   == ensure_state(TANK_STATE, prof, 1)[1]
    IN  new_values(prof, st, TANK_STATE'[1].bio_load, ACTIVE_EVENTS'[1],
                   wall'.minute, q, "none")

StateValues(st) ==
    [temperature |-> st.temperature, ph |-> st.ph,
     oxygen |-> st.oxygen, turbidity |-> st.turbidity]

(* C24: a sensor spike is confined to one tick: the previous-state values the
   next step is computed from do not contain the spike delta, they are the
   values of the step without its spike. *)
C24_SpikeNotInState ==
    [][used'.ticks # used.ticks =>
          \E q \in NoiseQuantiles : StateValues(TANK_STATE'[1]) = UnspikedValues(q)]_vars

(* what the step stores: the values of the reading it returns, spike
   included *)
C24_StateIsReading ==
    [][used'.ticks # used.ticks =>
          StateValues(TANK_STATE'[1]) = StateValues(reading')]_vars

-----------------------------------------------------------------------------
(* Simulator: the life of an event, one tank stepped by the loop of main() *)

(* one pass of the loop of main() for tank 1, no sensor spike drawn *)
life_step ==
    \E m \in WallMinutes, q \in NoiseQuantiles, aerator \in BOOLEAN, water \in BOOLEAN :
        generate_reading(1, [day |-> 1, minute |-> m], q, "none", aerator, water)

LifeNext ==
    \/ \E i \in IntervalInputs : main_set_interval(i)
    \/ life_step

(* while True: ... generate_reading ...; time.sleep(INTERVAL): the loop keeps
   stepping the tank *)
SpecLife == AlertInit /\ [][LifeNext]_vars /\ WF_vars(life_step)

TickOf(t) == IF t \in DOMAIN TANK_STATE THEN TANK_STATE[t].tick ELSE 0

EventsOf(events, t) == IF t \in DOMAIN events THEN events[t] ELSE <<>>

(* the remaining_ticks the scheduler gives an event of that name *)
ScheduledTicks(name) ==
    IF name = "feeding" THEN {ticks_for_minutes(FEED_EVENT_MIN, INTERVAL)}
    ELSE IF name = "aerator_failure"
    THEN {ticks_for_minutes(m, INTERVAL) : m \in AERATOR_FAIL_MIN_LO..AERATOR_FAIL_MIN_HI}
    ELSE {ticks_for_minutes(m, INTERVAL) : m \in WATER_RENEW_MIN_LO..WATER_RENEW_MIN_HI}

(* a generate_reading step of tank 1: every event of the list after the step
   has at least one tick left; the events that had two or more ticks left are
   kept in order with one tick less, those with one tick left are gone; the
   events the step started follow them with the ticks the scheduler gave them;
   the reading returned carries the effects of exactly the events of that
   list *)
LifeStepOk ==
    LET old  == EventsOf(ACTIVE_EVENTS, 1)
        new  == EventsOf(ACTIVE_EVENTS', 1)
        kept == SelectSeq(old, LAMBDA e : e.remaining_ticks >= 2)
        prof == ensure_profile(TANK_PROFILES, 1)[1]
        st   == ensure_state(TANK_STATE, prof, 1)[1]
    IN  /\ \A i \in 1..Len(new) : new[i].remaining_ticks >= 1
        /\ Len(new) >= Len(kept)
        /\ \A i \in 1..Len(kept) :
              new[i] = [kept[i] EXCEPT !.remaining_ticks = @ - 1]
        /\ \A i \in (Len(kept) + 1)..Len(new) :
              new[i].remaining_ticks \in ScheduledTicks(new[i].name)
        /\ \E q \in NoiseQuantiles :
              LET v == new_values(prof, st, TANK_STATE'[1].bio_load, new,
                                  wall'.minute, q, "none")
              IN  /\ reading'.oxygen = v.oxygen
                  /\ reading'.turbidity = v.turbidity
                  /\ reading'.temperature = v.temperature
                  /\ reading'.ph = v.ph

(* an event of tank 1 whose last tick is the tank's step number x *)
ExpiresAt(x) ==
    \E i \in 1..Len(EventsOf(ACTIVE_EVENTS, 1)) :
        TickOf(1) + EventsOf(ACTIVE_EVENTS, 1)[i].remaining_ticks = x + 1

(* the tank has made step x + 1 and holds no event that was due to end by
   step x *)
DiscardedAfter(x) ==
    /\ TickOf(1) = x + 1
    /\ \A i \in 1..Len(EventsOf(ACTIVE_EVENTS, 1)) :
          TickOf(1) + EventsOf(ACTIVE_EVENTS, 1)[i].remaining_ticks > x + 1

(* C20: after every generate_reading step each active event has at least one
   remaining tick; an event started with n ticks is not decremented in the
   step that creates it, loses one tick in each later step, contributes its
   effect in the n steps in which it is in the list, and is removed in the
   step after the one it enters with a single tick left; so every event is
   eventually discarded. *)
C20_EventLifecycle ==
    /\ [][used'.ticks # used.ticks => LifeStepOk]_vars
    /\ \A x \in 1..(MaxTicks - 1) : ExpiresAt(x) ~> DiscardedAfter(x)

(* the tank has been stepped three times at 30 minute intervals: the aerator
   failure an earlier step started with one tick has been discarded, and a
   feeding started with two ticks is in its second and last step *)
C20_Witness ==
    /\ INTERVAL = 1800
    /\ TickOf(1) = 3
    /\ used.aerators = 1
    /\ ~HasEvent(EventsOf(ACTIVE_EVENTS, 1), "aerator_failure")
    /\ \E i \in 1..Len(EventsOf(ACTIVE_EVENTS, 1)) :
          /\ ACTIVE_EVENTS[1][i].name = "feeding"
          /\ ACTIVE_EVENTS[1][i].remaining_ticks = 1


-----------------------------------------------------------------------------
(* Simulator: the bio-load of one tank over a longer run *)

(* --interval values of main(): the default 30 s, and one so long that a single
   tick adds the whole range of the accumulator *)
BioIntervals == {30, 1800000}

bio_set_interval(i) ==
    /\ i # 30
    /\ main_set_interval(i)

(* one pass of the loop of main() for tank 1 at midnight: no feeding window,
   no spike, no aerator failure; the daily roll may start a water renewal *)
bio_step ==
    \E q \in NoiseQuantiles, water \in BOOLEAN :
        generate_reading_within(MaxBioTicks, 1, [day |-> 1, minute |-> 0],
                                q, "none", FALSE, water)

BioNext ==
    \/ \E i \in BioIntervals : bio_set_interval(i)
    \/ bio_step

SpecBio == AlertInit /\ [][BioNext]_vars

(* st["bio_load"] as _update_bio_load finds it in a step of tank t *)
BioBefore(t) ==
    IF t \in DOMAIN TANK_STATE THEN TANK_STATE[t].bio_load ELSE BIO_LOAD_START

(* C21: the bio-load of a tank is within [0, 2] after every step; a step with
   no water_renewal event active for the tank never decreases it, and a step
   with a water_renewal event active never increases it. *)
C21_BioLoadBoundedMonotone ==
    [][used'.ticks # used.ticks =>
          LET t       == reading'.tank_id
              new     == TANK_STATE'[t].bio_load
              renewal == HasEvent(ACTIVE_EVENTS'[t], "water_renewal")
          IN  /\ 0 <= new /\ new <= BIO_LOAD_CAP
              /\ renewal => new <= BioBefore(t)
              /\ ~renewal => new >= BioBefore(t)]_vars

(* a water renewal has been active for seven steps and the bio-load, 0.10 at
   the start, is held at 0 by the floor *)
C21_Witness ==
    /\ 1 \in DOMAIN TANK_STATE
    /\ TANK_STATE[1].tick >= 7
    /\ TANK_STATE[1].bio_load = 0
    /\ HasEvent(ACTIVE_EVENTS[1], "water_renewal")

(* with the long interval the accumulator sits at its cap *)
BioAtCap ==
    /\ 1 \in DOMAIN TANK_STATE
    /\ TANK_STATE[1].tick >= 2
    /\ TANK_STATE[1].bio_load = BIO_LOAD_CAP

-----------------------------------------------------------------------------
(* Actions of the feed optimizer: a run and a second run of the same call *)

(* optimize_feed(..., config=c) up to the loop, lines 167-181 *)
optimize_feed_call(c, e, d) ==
    /\ run.pc = "start"
    /\ cfg' = c
    /\ env' = e
    /\ run' = ga_start(ga_new, c, d)
    /\ \E d2 \in second_run_draws(d, InitDraws(c)) : rerun' = ga_start(ga_new, c, d2)
    /\ UNCHANGED <<feed_plan, alertVars, simVars, entityVars, probeVars, feedVars>>

(* lines 184-197: score the generation, record the best, keep the elites *)
evaluate_generation ==
    /\ run.pc = "evaluate"
    /\ \E em \in {env_multiplier(env)} :
          /\ run' = ga_evaluate(run, em, cfg)
          /\ rerun' = IF rerun.pc = "evaluate" THEN ga_evaluate(rerun, em, cfg) ELSE rerun
    /\ UNCHANGED <<cfg, env, feed_plan, alertVars, simVars, entityVars, probeVars, feedVars>>

(* lines 204-212: one child by tournament, blend and mutation *)
breed_child(d) ==
    /\ run.pc = "breed"
    /\ \E em \in {env_multiplier(env)} :
          /\ run' = ga_breed(run, em, cfg, d)
          /\ \E d2 \in second_run_draws(d, ChildDraws(Len(run.pop))) :
                rerun' = IF rerun.pc = "breed" /\ Len(rerun.pop) = Len(run.pop)
                         THEN ga_breed(rerun, em, cfg, d2) ELSE rerun
    /\ UNCHANGED <<cfg, env, feed_plan, alertVars, simVars, entityVars, probeVars, feedVars>>

(* lines 214-238: the final population against the best, and the result *)
optimize_feed_return ==
    /\ run.pc = "finish"
    /\ \E em \in {env_multiplier(env)} :
          /\ run' = ga_finish(run, em, cfg)
          /\ rerun' = IF rerun.pc = "finish" THEN ga_finish(rerun, em, cfg) ELSE rerun
    /\ UNCHANGED <<cfg, env, feed_plan, alertVars, simVars, entityVars, probeVars, feedVars>>

(* recommend_feed_plan(use_ga=True): lines 262-347 once optimize_feed returned *)
recommend_feed_plan(fish_count, weight_g) ==
    /\ run.pc = "done"
    /\ feed_plan = NoPlan
    /\ feed_plan' = [fish_count |-> fish_count, weight_g |-> weight_g, use_ga |-> TRUE,
                     out |-> feed_plan_of(fish_count, weight_g, env, TRUE,
                                          run.result.grams_per_fish)]
    /\ UNCHANGED <<cfg, env, run, rerun, alertVars, simVars, entityVars, probeVars, feedVars>>

(* recommend_feed_plan(use_ga=False): the table alone, optimize_feed not called *)
recommend_feed_plan_table(fish_count, weight_g, e) ==
    /\ run.pc = "start"
    /\ feed_plan = NoPlan
    /\ env' = e
    /\ run' = [run EXCEPT !.pc = "unused"]
    /\ rerun' = [rerun EXCEPT !.pc = "unused"]
    /\ feed_plan' = [fish_count |-> fish_count, weight_g |-> weight_g, use_ga |-> FALSE,
                     out |-> feed_plan_of(fish_count, weight_g, e, FALSE, 0)]
    /\ UNCHANGED <<cfg, alertVars, simVars, entityVars, probeVars, feedVars>>

GANext ==
    \/ \E c \in GAConfigs, e \in EnvInputs : \E d \in InitDraws(c) : optimize_feed_call(c, e, d)
    \/ evaluate_generation
    \/ \E d \in ChildDraws(Len(run.pop)) : breed_child(d)
    \/ optimize_feed_return
    \/ \E n \in FishCounts, w \in WeightInputs : recommend_feed_plan(n, w)
    \/ \E n \in FishCounts, w \in WeightInputs, e \in EnvInputs :
          recommend_feed_plan_table(n, w, e)

SpecGA == AlertInit /\ [][GANext]_vars

-----------------------------------------------------------------------------
(* Properties of the feed optimizer *)

NonDecreasing(h) ==
    \A i \in 1..(Len(h) - 1) : h[i] <= h[i + 1]

(* C6: the best-fitness-so-far recorded per generation (the history of the
   run) never decreases from one generation to the next, whatever the draws
   and the configuration. *)
C6_HistoryNonDecreasing == NonDecreasing(run.history)

(* a run whose second generation improved on the first *)
C6_Witness ==
    /\ Len(run.history) >= 2
    /\ run.history[2] > run.history[1]

Fitness(g) == score_candidate(g, env_multiplier(env), cfg)

(* C7: the returned score is at least the fitness of every candidate built in
   any generation, the final population included, and the returned dosage is
   one of those candidates, of fitness equal to the returned score. *)
C7_ReturnsBestEverBuilt ==
    run.pc = "done" =>
        /\ \A g \in run.built : Fitness(g) <= run.result.score
        /\ run.result.grams_per_fish \in run.built
        /\ Fitness(run.result.grams_per_fish) = run.result.score

(* a returned best that only the final, unevaluated population holds *)
C7_Witness ==
    /\ run.pc = "done"
    /\ Len(run.history) = cfg.max_generations
    /\ run.result.score > run.history[Len(run.history)]

(* C8: a second run with the same configuration, seed and environment goes
   through the same populations as the first and returns the same
   grams_per_fish, score and history. *)
C8_SameSeedSameRun == rerun = run

(* two finished runs that bred children from the draws of the seed *)
C8_Witness ==
    /\ run.pc = "done"
    /\ rerun.pc = "done"
    /\ run.gen >= 2
    /\ Cardinality(run.built) > cfg.pop_size
    /\ rerun.result.grams_per_fish = run.result.grams_per_fish

(* C9, as the specification states it: a structurally invalid configuration
   is refused before any generation is evaluated, and nothing is returned. *)
C9_InvalidConfigRejected ==
    (run.pc # "start" /\ StructurallyInvalid(cfg)) =>
        /\ run.pc = "error"
        /\ run.history = <<>>
        /\ run.result = NoResult

(* C10: at the start of every generation the population holds exactly
   pop_size candidates, for elite_frac in [0, 1] and pop_size >= 1. *)
C10_PopulationSizeConstant ==
    (/\ run.pc = "evaluate"
     /\ cfg.elite_frac >= 0 /\ cfg.elite_frac <= 1000
     /\ cfg.pop_size >= 1)
        => Len(run.pop) = cfg.pop_size

(* a later generation starts, elites and bred children together *)
C10_Witness ==
    /\ run.pc = "evaluate"
    /\ run.gen >= 1
    /\ cfg.pop_size = 3
    /\ elite_n(cfg) = 2
    /\ Len(run.pop) = cfg.pop_size

RECURSIVE SumMealTotals(_)
SumMealTotals(meals) ==
    IF meals = <<>> THEN 0 ELSE Head(meals).total_grams + SumMealTotals(Tail(meals))

(* C11, as the specification states it: for every fish_count the call
   accepts, the plan's total_grams is grams_per_fish times fish_count and the
   meals' total_grams add up to the plan's total_grams. *)
C11_PlanTotalsConsistent ==
    feed_plan # NoPlan =>
        /\ feed_plan.out.total_grams = feed_plan.out.grams_per_fish * feed_plan.fish_count
        /\ SumMealTotals(feed_plan.out.meals) = 6 * feed_plan.out.total_grams

(* the same for the counts that are not negative *)
C11_PlanTotalsConsistentFromZero ==
    (feed_plan # NoPlan /\ feed_plan.fish_count >= 0) =>
        /\ feed_plan.out.total_grams = feed_plan.out.grams_per_fish * feed_plan.fish_count
        /\ SumMealTotals(feed_plan.out.meals) = 6 * feed_plan.out.total_grams


-----------------------------------------------------------------------------
(* Feed optimizer: how a run stops *)

(* small populations with room for an early stop: three generations with a
   patience of 0, 1 or 2, and a run of no generation at all *)
StopConfigs ==
    { [BaseConfig EXCEPT !.pop_size = 2, !.max_generations = 3],
      [BaseConfig EXCEPT !.pop_size = 2, !.max_generations = 3,
                         !.stagnation_patience = 2],
      [BaseConfig EXCEPT !.pop_size = 2, !.max_generations = 3,
                         !.stagnation_patience = 0],
      [BaseConfig EXCEPT !.pop_size = 2, !.max_generations = 0] }

StopNext ==
    \/ \E c \in StopConfigs, e \in EnvInputs : \E d \in InitDraws(c) : optimize_feed_call(c, e, d)
    \/ evaluate_generation
    \/ \E d \in ChildDraws(Len(run.pop)) : breed_child(d)
    \/ optimize_feed_return

SpecStop == AlertInit /\ [][StopNext]_vars

(* the number of generations at the end of h that brought no improvement of
   the best-so-far fitness *)
RECURSIVE Stall(_)
Stall(h) ==
    IF Len(h) < 2 THEN 0
    ELSE IF h[Len(h)] > h[Len(h) - 1] THEN 0
    ELSE 1 + Stall(SubSeq(h, 1, Len(h) - 1))

Stopped(r) == r.pc \in {"done", "error"}

(* the statements a run r under configuration c has left at most: the turns
   of the while loop of its generation, then the generations to come, then
   lines 214-238 *)
StepsLeft(r, c) ==
    IF Stopped(r) THEN 0
    ELSE IF r.pc = "finish" THEN 1
    ELSE 2 + (c.max_generations - r.gen) * (c.pop_size + 2)
           - (IF r.pc = "breed" THEN 1 + Len(r.new_pop) ELSE 0)

StopsWhereItShould ==
    run.pc # "start" =>
        LET h == run.history
            n == Len(h)
        IN  /\ n <= cfg.max_generations
            /\ \A m \in 1..(n - 1) : Stall(SubSeq(h, 1, m)) < cfg.stagnation_patience
            /\ run.pc = "evaluate" => n < cfg.max_generations
            /\ (run.pc \in {"breed", "evaluate"} /\ n > 0) =>
                  Stall(h) < cfg.stagnation_patience
            /\ run.pc = "done" =>
                  /\ n = cfg.max_generations \/ Stall(h) >= cfg.stagnation_patience
                  /\ run.result.generations = n

(* C22: optimize_feed always terminates (every statement of a run lowers a
   count of the statements left that is never negative, so no run goes on
   for ever); it evaluates at most max_generations
   generations, stops at the first generation at which the best-so-far
   fitness has not improved for stagnation_patience consecutive generations,
   and returns as generations the number of generations it evaluated. *)
C22_StopsAndCounts ==
    /\ []StopsWhereItShould
    /\ [][Len(run'.history) = Len(run.history) + (IF run.pc = "evaluate" THEN 1 ELSE 0)]_vars
    /\ [][run.pc # "start" =>
              /\ StepsLeft(run', cfg') >= 0
              /\ StepsLeft(run', cfg') < StepsLeft(run, cfg)]_vars

(* a run allowed three generations has returned after two: the second one
   brought no improvement and the patience is 1 *)
C22_Witness ==
    /\ run.pc = "done"
    /\ cfg.max_generations = 3
    /\ cfg.stagnation_patience = 1
    /\ run.result.generations = 2
    /\ run.history[1] = run.history[2]


(* the stagnation stop of line 194 has ended the loop of run r *)
StagnationStop(r, c) ==
    /\ Len(r.history) > 0
    /\ Stall(r.history) >= c.stagnation_patience

(* C29: the converged flag of the result is true exactly when the stagnation
   counter reached stagnation_patience and stopped the run, and false exactly
   when that stop never triggered within max_generations generations. *)
C29_ConvergedIffStagnated ==
    run.pc = "done" => (run.result.converged <=> StagnationStop(run, cfg))

(* what the flag does report: fewer generations evaluated than allowed *)
C29_ConvergedIffFewerGenerations ==
    run.pc = "done" =>
        (run.result.converged <=> run.result.generations < cfg.max_generations)


-----------------------------------------------------------------------------
(* Feed optimizer: the size of the tournament *)

(* tournament_k = 1, 2 and 3, none above the population size *)
TournamentConfigs ==
    { [BaseConfig EXCEPT !.pop_size = 2, !.tournament_k = 1],
      [BaseConfig EXCEPT !.pop_size = 2],
      [BaseConfig EXCEPT !.tournament_k = 3] }

TournamentNext ==
    \/ \E c \in TournamentConfigs, e \in EnvInputs :
          \E d \in InitDraws(c) : optimize_feed_call(c, e, d)
    \/ evaluate_generation
    \/ \E d \in ChildDraws(Len(run.pop)) : breed_child(d)
    \/ optimize_feed_return

SpecTournament == AlertInit /\ [][TournamentNext]_vars

(* C23: for every tournament_k with 1 <= tournament_k <= pop_size each parent
   is the fittest of tournament_k candidates drawn from the population, two
   tournaments per child: the selection raises nothing and the run goes on to
   return. *)
C23_TournamentOfAnySize ==
    (run.pc # "start" /\ 1 <= cfg.tournament_k /\ cfg.tournament_k <= cfg.pop_size)
        => run.pc # "error"

(* with tournament_k = 2 the selection never raises *)
C23_TournamentOfTwo ==
    (run.pc # "start" /\ cfg.tournament_k = 2 /\ cfg.pop_size >= 2)
        => run.pc # "error"

-----------------------------------------------------------------------------
(* Actions constructing a SensorReading *)

(* SensorReading(tank_id, temperatura, ph, oxigenio, turbidez) by a caller *)
construct_reading(v) ==
    /\ constructed' = [source |-> "caller", values |-> v, outcome |-> post_init(v)]
    /\ UNCHANGED <<alertVars, simVars, gaVars, probeVars, feedVars>>

(* the reading built from what generate_reading returns (main, lines 385-393;
   simulate_and_process): steps 8 and 9 of generate_reading, then SensorReading *)
construct_generated(raw) ==
    LET vals == physical_limits(raw)
        v    == [temperatura |-> vals.temperature, ph |-> vals.ph,
                 oxigenio |-> vals.oxygen, turbidez |-> vals.turbidity]
    IN  /\ constructed' = [source |-> "generate_reading", values |-> v,
                           outcome |-> post_init(v)]
        /\ UNCHANGED <<alertVars, simVars, gaVars, probeVars, feedVars>>

ReadingNext ==
    \/ \E v \in HardInputs : construct_reading(v)
    \/ \E raw \in RawInputs : construct_generated(raw)

SpecReading == AlertInit /\ [][ReadingNext]_vars

(* C12: constructing a SensorReading raises ValueError whenever temperature is
   outside [0, 50], pH outside [0, 14], oxygen outside [0, 100] or turbidity
   outside [0, 200], and succeeds otherwise, the boundary values included;
   every value set generate_reading returns passes the validation. *)
C12_ConstructionRejectsOutOfBounds ==
    constructed.source # "none" =>
        LET v == constructed.values
            outside == \/ v.temperatura < 0 \/ v.temperatura > 50000
                       \/ v.ph < 0 \/ v.ph > 14000
                       \/ v.oxigenio < 0 \/ v.oxigenio > 100000
                       \/ v.turbidez < 0 \/ v.turbidez > 200000
        IN  /\ (constructed.outcome # "ok") <=> outside
            /\ constructed.source = "generate_reading" => constructed.outcome = "ok"

(* a caller's reading with every metric on a hard limit is accepted *)
C12_Witness ==
    /\ constructed.source = "caller"
    /\ constructed.values = [temperatura |-> 50000, ph |-> 14000,
                             oxigenio |-> 0, turbidez |-> 200000]
    /\ constructed.outcome = "ok"

-----------------------------------------------------------------------------
(* Further properties of the alerting machine *)

(* C14: every alert execute creates records as threshold, for temperature
   and pH, the bound the value violated (the maximum when the value is above
   it, the minimum when it is below the minimum), for oxygen the oxygen
   minimum and for turbidity the turbidity maximum. *)
C14_ThresholdIsViolatedBound ==
    \A i \in 1..Len(alerts) :
        LET a == alerts[i]
        IN  /\ a.alert_type = "temperature" =>
                   \/ a.value > temp_max /\ a.threshold = temp_max
                   \/ a.value < temp_min /\ a.threshold = temp_min
            /\ a.alert_type = "ph" =>
                   \/ a.value > ph_max /\ a.threshold = ph_max
                   \/ a.value < ph_min /\ a.threshold = ph_min
            /\ a.alert_type = "oxygen" => a.threshold = oxygen_min
            /\ a.alert_type = "turbidity" => a.threshold = turbidez_max

(* a tank that was too cold, recovered, and is now too warm: the first
   alert carries the temperature minimum, the second the maximum *)
C14_Witness ==
    \E i, j \in 1..Len(alerts) :
        /\ alerts[i].tank_id = alerts[j].tank_id
        /\ alerts[i].alert_type = "temperature"
        /\ alerts[i].value < temp_min /\ alerts[i].threshold = temp_min
        /\ alerts[j].alert_type = "temperature"
        /\ alerts[j].value > temp_max /\ alerts[j].threshold = temp_max


-----------------------------------------------------------------------------
(* run.py auto_resolve_sweep *)

(* get_tanks(): the tanks with active = 1, ordered by id; every tank row is
   inserted with active = 1 and no statement changes the column *)
get_tanks == <<1, 2>>

(* the body of the loop of auto_resolve_sweep without its four NORMAL tests *)
sweep_tank_unconditional(tbl, tid, last, when) ==
    IF last = NoReading THEN tbl
    ELSE resolve_open_by_type(
             resolve_open_by_type(
                 resolve_open_by_type(
                     resolve_open_by_type(tbl, tid, "temperature", when),
                     tid, "ph", when),
                 tid, "oxygen", when),
             tid, "turbidity", when)

(* the body of the loop of auto_resolve_sweep for tank tid *)
sweep_tank(tbl, tid, last, when) ==
    IF last = NoReading THEN tbl
    ELSE LET s  == sev_map(last)
             t1 == IF s.temperature = "NORMAL"
                   THEN resolve_open_by_type(tbl, tid, "temperature", when) ELSE tbl
             t2 == IF s.ph = "NORMAL"
                   THEN resolve_open_by_type(t1, tid, "ph", when) ELSE t1
             t3 == IF s.oxygen = "NORMAL"
                   THEN resolve_open_by_type(t2, tid, "oxygen", when) ELSE t2
         IN  IF s.turbidity = "NORMAL"
             THEN resolve_open_by_type(t3, tid, "turbidity", when) ELSE t3

RECURSIVE sweep_tanks(_, _, _, _)
sweep_tanks(tbl, tanks, rows, when) ==
    IF tanks = <<>> THEN tbl
    ELSE sweep_tanks(sweep_tank(tbl, Head(tanks), last_for_tank(rows, Head(tanks)), when),
                     Tail(tanks), rows, when)

(* auto_resolve_sweep(): now_utc is read once, after the last stored reading *)
auto_resolve_sweep ==
    /\ now - Len(sensor_readings) < MaxSweeps
    /\ now' = now + 1
    /\ alerts' = sweep_tanks(alerts, get_tanks, sensor_readings, now + 1)
    /\ lastCall' = [op |-> "auto_resolve_sweep", tank_id |-> 0, alerts |-> <<>>]
    /\ UNCHANGED <<sensor_readings, inflight>>
    /\ UNCHANGED <<simVars, gaVars, entityVars, probeVars, feedVars>>

SweepNext ==
    \/ \E tid \in AlertTanks, v \in ReadingInputs : Execute(tid, v)
    \/ \E tid \in AlertTanks, v \in ReadingInputs : SimulateAndProcess(tid, v)
    \/ auto_resolve_sweep

SpecSweep == AlertInit /\ [][SweepNext]_vars

(* alert a is open and its metric is NORMAL in the latest stored reading of
   its tank *)
BackToNormal(a) ==
    LET last == last_for_tank(sensor_readings, a.tank_id)
    IN  /\ ~a.resolved
        /\ last # NoReading
        /\ sev_map(last)[a.alert_type] = "NORMAL"

(* C19: the sweep marks as resolved, with a resolved timestamp, every open
   alert whose metric is NORMAL in its tank's latest stored reading and
   changes nothing else: alerts of non-NORMAL metrics and of tanks without
   readings stay open, already resolved alerts keep their resolved_at, and no
   reading or alert row is added or removed. *)
C19_SweepResolvesExactlyNormal ==
    [][(lastCall'.op = "auto_resolve_sweep" /\ now' # now) =>
          /\ sensor_readings' = sensor_readings
          /\ Len(alerts') = Len(alerts)
          /\ \A i \in 1..Len(alerts) :
                alerts'[i] = IF BackToNormal(alerts[i])
                             THEN [alerts[i] EXCEPT !.resolved = TRUE,
                                                    !.resolved_at = now']
                             ELSE alerts[i]]_vars

(* a sweep has just resolved one alert of a tank, left another alert of the
   same tank open, and left an alert resolved earlier with its older
   resolved_at *)
C19_Witness ==
    /\ lastCall.op = "auto_resolve_sweep"
    /\ \E i, j, k \in 1..Len(alerts) :
          /\ alerts[i].resolved /\ alerts[i].resolved_at = now
          /\ ~alerts[j].resolved /\ alerts[j].tank_id = alerts[i].tank_id
          /\ alerts[k].resolved /\ alerts[k].resolved_at < now
          /\ sev_map(last_for_tank(sensor_readings, alerts[k].tank_id))[alerts[k].alert_type]
                = "NORMAL"


(* C25: in every reachable state of the alert store there is at most one
   unresolved alert per tank and metric, under any interleaving of
   simulate_and_process, the execute of the simulator loop and the sweep. *)
C25_AtMostOneOpenAlert ==
    \A tid \in AlertTanks, key \in Range(MetricKeys) :
        Cardinality(OpenAlerts(tid, key)) <= 1


-----------------------------------------------------------------------------
(* Two processes calling MonitorSensorsUseCase.execute on one database *)

(* execute, line 62: prev = self.sensor_repo.last_for_tank(reading.tank_id),
   for the reading process p has just built *)
execute_read_prev(p, tid, v) ==
    LET ts == now + 1
        r  == MkReading(tid, v, ts)
    IN  /\ inflight[p].pc = "idle"
        /\ Len(sensor_readings)
             + Cardinality({q \in Processes : inflight[q].pc = "read"}) < MaxReadings
        /\ ValidReading(r)
        /\ now' = ts
        /\ inflight' = [inflight EXCEPT ![p] =
                           [pc |-> "read", reading |-> r,
                            prev |-> last_for_tank(sensor_readings, tid)]]
        /\ UNCHANGED <<sensor_readings, alerts, lastCall>>
        /\ UNCHANGED <<simVars, gaVars, entityVars, probeVars, feedVars>>

(* execute, lines 65-103, with the prev read earlier: store the reading, save
   the alerts of the transitions; the dashboard then resolves the metrics that
   are NORMAL (simulate_and_process, lines 480-486) *)
execute_store(p) ==
    /\ inflight[p].pc = "read"
    /\ LET r   == inflight[p].reading
           new == execute_alerts(inflight[p].prev, r, r.timestamp)
       IN  /\ sensor_readings' = Append(sensor_readings, r)
           /\ alerts' = IF p = "dashboard"
                        THEN resolve_normal_metrics(alerts \o new, r, now)
                        ELSE alerts \o new
           /\ lastCall' = [op |-> IF p = "dashboard" THEN "simulate_and_process"
                                  ELSE "execute",
                           tank_id |-> r.tank_id, alerts |-> new]
    /\ inflight' = [inflight EXCEPT ![p] = Idle]
    /\ UNCHANGED now
    /\ UNCHANGED <<simVars, gaVars, entityVars, probeVars, feedVars>>

OverlapNext ==
    \/ \E p \in Processes, tid \in AlertTanks, v \in ReadingInputs :
          execute_read_prev(p, tid, v)
    \/ \E p \in Processes : execute_store(p)

SpecOverlap == AlertInit /\ [][OverlapNext]_vars

(* the stored readings of tank tid in which metric key is non-NORMAL while it
   was NORMAL in the reading stored with the timestamp before (none: NORMAL) *)
ChangesToNonNormal(tid, key) ==
    LET mine == {i \in 1..Len(sensor_readings) : sensor_readings[i].tank_id = tid}
        before(i) == {j \in mine :
                         sensor_readings[j].timestamp < sensor_readings[i].timestamp}
        prev_sev(i) ==
            IF before(i) = {} THEN "NORMAL"
            ELSE sev_map(sensor_readings[
                     CHOOSE j \in before(i) :
                        \A k \in before(i) :
                           sensor_readings[k].timestamp <= sensor_readings[j].timestamp])[key]
    IN  {i \in mine : sev_map(sensor_readings[i])[key] # "NORMAL" /\ prev_sev(i) = "NORMAL"}

AlertsOf(tid, key) ==
    {i \in 1..Len(alerts) : alerts[i].tank_id = tid /\ alerts[i].alert_type = key}

(* C26: when two execute calls for the same tank overlap (both read the
   previous reading before either has added its own), a single change of a
   metric from NORMAL to non-NORMAL still produces at most one alert for that
   metric: a tank never has more alerts of a metric than its stored readings
   have such changes. *)
C26_OneAlertPerChange ==
    \A tid \in AlertTanks, key \in Range(MetricKeys) :
        Cardinality(AlertsOf(tid, key)) <= Cardinality(ChangesToNonNormal(tid, key))


-----------------------------------------------------------------------------
(* MonitorSensorsUseCase.execute when alert_repo.save raises *)

(* execute with alert_repo.save (line 100) raising at the j-th alert it would
   save: the reading was added and committed at line 66, the alerts before the
   j-th were saved, each in its own transaction, and nothing is returned *)
ExecuteSaveRaises(tid, v, j) ==
    LET ts   == now + 1
        r    == MkReading(tid, v, ts)
        prev == last_for_tank(sensor_readings, tid)
        new  == execute_alerts(prev, r, ts)
    IN  /\ Len(sensor_readings) < MaxReadings
        /\ ValidReading(r)
        /\ j \in 1..Len(new)
        /\ now' = ts
        /\ sensor_readings' = Append(sensor_readings, r)
        /\ alerts' = alerts \o SubSeq(new, 1, j - 1)
        /\ lastCall' = [op |-> "execute_raised", tank_id |-> tid,
                        alerts |-> SubSeq(new, 1, j - 1), reading |-> r,
                        unsaved |-> {new[i].alert_type : i \in j..Len(new)}]
        /\ UNCHANGED <<inflight, simVars, gaVars, entityVars, probeVars, feedVars>>

RaiseNext ==
    \/ \E tid \in AlertTanks, v \in ReadingInputs : Execute(tid, v)
    \/ \E tid \in AlertTanks, v \in ReadingInputs, j \in 1..4 :
          ExecuteSaveRaises(tid, v, j)

SpecRaise == AlertInit /\ [][RaiseNext]_vars

(* the step is an execute that raised in alert_repo.save *)
SaveRaised == lastCall'.op = "execute_raised" /\ sensor_readings' # sensor_readings

(* the step is a completed execute for the tank of a raised execute just
   before it, with a reading of the same severities *)
RetryAfterRaise ==
    /\ lastCall.op = "execute_raised"
    /\ lastCall'.op = "execute"
    /\ lastCall'.tank_id = lastCall.tank_id
    /\ sev_map(sensor_readings'[Len(sensor_readings')]) = sev_map(lastCall.reading)

AlertTypes(as) == {as[i].alert_type : i \in 1..Len(as)}

(* C27: an execute in which alert_repo.save raises leaves no partial effect:
   its reading is not left stored as the latest reading of the tank and none
   of its alerts is stored; and a later execute for the tank with the same
   severities creates the alerts the raised call did not save. *)
C27_RaiseLeavesNothing ==
    /\ [][SaveRaised =>
            /\ last_for_tank(sensor_readings', lastCall'.tank_id)
                  = last_for_tank(sensor_readings, lastCall'.tank_id)
            /\ alerts' = alerts]_vars
    /\ [][RetryAfterRaise => lastCall.unsaved \subseteq AlertTypes(lastCall'.alerts)]_vars

(* what the code does: the reading of a raised execute stays the latest reading
   of its tank, and an execute that follows for the tank with the same
   severities creates no alert *)
C27_RaiseKeepsReading ==
    /\ [][SaveRaised =>
            last_for_tank(sensor_readings', lastCall'.tank_id) = lastCall'.reading]_vars
    /\ [][RetryAfterRaise => lastCall'.alerts = <<>>]_vars

-----------------------------------------------------------------------------
(* Actions calling _env_multiplier *)

(* _env_multiplier(temp, ph, oxy, turb, dens); after the first call the next
   one moves at most one input, the others held fixed *)
env_multiplier_call(e) ==
    /\ env_call.cur.made =>
          Cardinality({k \in EnvMetrics : e[k] # env_call.cur.args[k]}) <= 1
    /\ env_call' = [prev |-> env_call.cur,
                    cur  |-> [made |-> TRUE, args |-> e, out |-> env_multiplier(e)]]
    /\ UNCHANGED <<alertVars, simVars, gaVars, entityVars, feedVars>>

MultiplierNext == \E e \in MultiplierInputs : env_multiplier_call(e)

SpecMultiplier == AlertInit /\ [][MultiplierNext]_vars

(* how far outside its ideal band an input is: temperature and pH against
   their two thresholds, oxygen against its minimum, turbidity against its
   maximum, density against the 20 fish/m3 its score is full up to *)
OutsideBy(k, x) ==
    IF k = "temp" THEN Max2(0, Max2(temp_min - x, x - temp_max))
    ELSE IF k = "ph" THEN Max2(0, Max2(ph_min - x, x - ph_max))
    ELSE IF k = "oxy" THEN Max2(0, oxygen_min - x)
    ELSE IF k = "turb" THEN Max2(0, x - turbidez_max)
    ELSE Max2(0, x - 20000)

(* C15, as the specification states it: _env_multiplier returns a value in
   [0, 1], and when a single input moves further outside its ideal band, the
   others held fixed, the value does not increase. *)
C15_MultiplierNonIncreasingOutside ==
    /\ env_call.cur.made => (0 <= env_call.cur.out /\ env_call.cur.out <= 1000)
    /\ (env_call.prev.made /\ env_call.cur.made) =>
          \A k \in EnvMetrics :
              OutsideBy(k, env_call.cur.args[k]) > OutsideBy(k, env_call.prev.args[k])
                  => env_call.cur.out <= env_call.prev.out

(* the same, for moves between two values that are both outside the band *)
C15_MultiplierNonIncreasingBeyondBand ==
    /\ env_call.cur.made => (0 <= env_call.cur.out /\ env_call.cur.out <= 1000)
    /\ (env_call.prev.made /\ env_call.cur.made) =>
          \A k \in EnvMetrics :
              (/\ OutsideBy(k, env_call.prev.args[k]) > 0
               /\ OutsideBy(k, env_call.cur.args[k]) > OutsideBy(k, env_call.prev.args[k]))
                  => env_call.cur.out <= env_call.prev.out

-----------------------------------------------------------------------------
(* Actions of the feed use case *)

(* OptimizeFeedUseCase.execute(tank_id, dias_cultivo) *)
optimize_feed_execute(tid, predictor) ==
    /\ Len(feed_calls) < MaxFeedCalls
    /\ IF tid \notin DOMAIN TankTable
       THEN /\ feed_calls' = Append(feed_calls,
                                [tank_id |-> tid, predictor |-> predictor,
                                 at |-> now, outcome |-> "ValueError"])
            /\ UNCHANGED feed_recommendations
       ELSE /\ feed_calls' = Append(feed_calls,
                                [tank_id |-> tid, predictor |-> predictor,
                                 at |-> now, outcome |-> "ok"])
            /\ feed_recommendations' =
                  Append(feed_recommendations,
                         feed_row(tid, TankTable[tid].quantidade_peixes,
                                  last_for_tank(sensor_readings, tid), predictor, now))
    /\ UNCHANGED <<alertVars, simVars, gaVars, entityVars, probeVars>>

FeedNext ==
    \/ \E tid \in AlertTanks, v \in ReadingInputs : Execute(tid, v)
    \/ \E tid \in FeedTanks, p \in PredictorInputs : optimize_feed_execute(tid, p)

SpecFeed == AlertInit /\ [][FeedNext]_vars

(* the newest reading of tank tid stored by time at, or none *)
ReadingAt(tid, at) ==
    last_for_tank(SelectSeq(sensor_readings, LAMBDA r : r.timestamp <= at), tid)

(* max(0.1, predicted weight x 20) grams, times 1.0, 0.90 or 0.70 by the
   aggregate severity of the reading used, in ten-thousandths of a gram *)
ClaimedDosage(call) ==
    LET last == ReadingAt(call.tank_id, call.at)
        sev  == IF last = NoReading THEN "NORMAL" ELSE status_geral_severity(last)
        peso == IF call.predictor.injected THEN call.predictor.kg ELSE 1000
        base == Max2(1000, peso * 20)
    IN  IF sev = "NORMAL" THEN base
        ELSE IF sev = "WARNING" THEN (base * 9) \div 10 ELSE (base * 7) \div 10

OkCalls == SelectSeq(feed_calls, LAMBDA c : c.outcome = "ok")

CallsAndRowsAgree ==
    /\ Len(feed_recommendations) = Len(OkCalls)
    /\ \A i \in 1..Len(feed_calls) :
          (feed_calls[i].outcome = "ValueError") <=> (feed_calls[i].tank_id \notin DOMAIN TankTable)
    /\ \A i \in 1..Len(OkCalls) : feed_recommendations[i].tank_id = OkCalls[i].tank_id

(* C16, as the specification states it: the saved per-fish dosage is
   max(0.1, weight x 20) grams times the severity factor and the saved total
   is that dosage times the fish count; an unknown tank raises ValueError and
   saves nothing. *)
C16_SavedDosageIsExact ==
    /\ CallsAndRowsAgree
    /\ \A i \in 1..Len(OkCalls) :
          LET row == feed_recommendations[i]
              g   == ClaimedDosage(OkCalls[i])
          IN  /\ row.grams_per_fish * 100 = g
              /\ row.total_grams * 1000
                    = g * TankTable[row.tank_id].quantidade_peixes

(* C16: for an existing tank execute saves exactly one recommendation whose
   per-fish dosage is max(0.1, weight x 20) grams (weight 0.10 kg without a
   predictor) times 1.0, 0.90 or 0.70 by the aggregate severity of the tank's
   latest reading, rounded to two decimals, and whose total is the unrounded
   dosage times the fish count, rounded to one decimal; for an unknown tank
   it raises ValueError and saves nothing. *)
C16_SavedDosageIsRounded ==
    /\ CallsAndRowsAgree
    /\ \A i \in 1..Len(OkCalls) :
          LET row == feed_recommendations[i]
              g   == ClaimedDosage(OkCalls[i])
          IN  /\ row.grams_per_fish = RoundHalfEven(g, 100)
              /\ row.total_grams
                    = RoundHalfEven(g * TankTable[row.tank_id].quantidade_peixes, 1000)

(* tank 1 under WARNING with a predicted 0.1234 kg: 2.2212 g per fish is
   saved as 2.22 and the total 133.272 g as 133.3 *)
C16_Witness ==
    /\ Len(feed_recommendations) = 1
    /\ feed_calls[1].predictor.injected
    /\ feed_calls[1].predictor.kg = 1234
    /\ feed_calls[1].tank_id = 1
    /\ ReadingAt(1, feed_calls[1].at) # NoReading
    /\ status_geral_severity(ReadingAt(1, feed_calls[1].at)) = "WARNING"
    /\ feed_recommendations[1].grams_per_fish = 222
    /\ feed_recommendations[1].total_grams = 1333


(* valid readings with one metric at a hard limit or just outside of its
   operational range, and the readings with every metric at a hard limit *)
LimitReadings ==
    LET n == NeutralReading(1)
    IN  {[n EXCEPT !.temperatura = x] :
            x \in {TEMP_MIN_HARD, temp_min - 1, temp_max + 1, TEMP_MAX_HARD}}
        \cup {[n EXCEPT !.ph = x] : x \in {PH_MIN_HARD, ph_min - 1, ph_max + 1, PH_MAX_HARD}}
        \cup {[n EXCEPT !.oxigenio = x] : x \in {OXY_MIN_HARD, oxygen_min - 1, OXY_MAX_HARD}}
        \cup {[n EXCEPT !.turbidez = x] : x \in {TURB_MIN_HARD, turbidez_max + 1, TURB_MAX_HARD}}
        \cup {MkReading(1, v, 0) :
                 v \in [temperatura : {TEMP_MIN_HARD, TEMP_MAX_HARD},
                        ph : {PH_MIN_HARD, PH_MAX_HARD},
                        oxigenio : {OXY_MIN_HARD},
                        turbidez : {TURB_MAX_HARD}]}

NormalOrWarning(r) ==
    /\ \A k \in Range(MetricKeys) : sev_map(r)[k] \in {"NORMAL", "WARNING"}
    /\ status_geral_severity(r) \in {"NORMAL", "WARNING"}

(* C28: for every valid reading each per-metric status is NORMAL or WARNING
   and the aggregate severity is never CRITICAL; no alert of severity
   CRITICAL is ever created, and no saved feed recommendation carries the
   CRITICAL (30 percent) reduction. *)
C28_NeverCritical ==
    /\ \A r \in LimitReadings : ValidReading(r) /\ NormalOrWarning(r)
    /\ \A i \in 1..Len(sensor_readings) : NormalOrWarning(sensor_readings[i])
    /\ \A i \in 1..Len(alerts) : alerts[i].severity = "WARNING"
    /\ \A i \in 1..Len(feed_recommendations) :
          LET row  == feed_recommendations[i]
              peso == IF OkCalls[i].predictor.injected THEN OkCalls[i].predictor.kg
                      ELSE 1000
              base == Max2(1000, peso * 20)
          IN  /\ row.notes \in {"condicoes normais", "reducao 10% por alerta"}
              /\ row.grams_per_fish \in
                    {RoundHalfEven(reduced(base, s), 100) : s \in {"NORMAL", "WARNING"}}
              /\ row.grams_per_fish # RoundHalfEven(reduced(base, "CRITICAL"), 100)

(* a recommendation saved for a tank whose latest reading had all four metrics
   out of range, each of them alerted *)
C28_Witness ==
    \E i \in 1..Len(feed_recommendations) :
        LET row  == feed_recommendations[i]
            last == ReadingAt(row.tank_id, row.recommended_time)
        IN  /\ last # NoReading
            /\ \A k \in Range(MetricKeys) : sev_map(last)[k] = "WARNING"
            /\ row.notes = "reducao 10% por alerta"
            /\ Cardinality({j \in 1..Len(alerts) : alerts[j].tank_id = row.tank_id}) >= 4

-----------------------------------------------------------------------------
(* recommend_feed_plan: the meal schedule *)
(* times in minutes from local midnight of the day of the call *)

(* line 319: timedelta(days=1) *)
MINUTES_PER_DAY == 1440

(* datetime.now() of the call: midnight, around the first slot, between the
   slots, after the last one *)
ClockInputs == {0, 479, 480, 481, 540, 600, 900, 1100, 1200, 1439}

(* lines 315-320: the slot today, or tomorrow when it is not after now *)
next_occurrence(h, m, clock) ==
    LET t == h * 60 + m
    IN  IF t <= clock THEN t + MINUTES_PER_DAY ELSE t

(* lines 322-331: the meals with their times, in the order of the slots *)
scheduled_meals(out, clock) ==
    [i \in 1..Len(out.meals) |->
        [time |-> next_occurrence(out.meals[i].hour, 0, clock),
         label |-> out.meals[i].label,
         grams_per_fish |-> out.meals[i].grams_per_fish,
         total_grams |-> out.meals[i].total_grams]]

(* recommend_feed_plan(use_ga=False) called at time clock of the day *)
recommend_feed_plan_at(fish_count, weight_g, e, clock) ==
    /\ run.pc = "start"
    /\ feed_plan = NoPlan
    /\ env' = e
    /\ run' = [run EXCEPT !.pc = "unused"]
    /\ rerun' = [rerun EXCEPT !.pc = "unused"]
    /\ \E out \in {feed_plan_of(fish_count, weight_g, e, FALSE, 0)} :
          feed_plan' = [fish_count |-> fish_count, weight_g |-> weight_g,
                        use_ga |-> FALSE, clock |-> clock,
                        out |-> [out EXCEPT !.meals = scheduled_meals(out, clock)]]
    /\ UNCHANGED <<cfg, alertVars, simVars, entityVars, probeVars, feedVars>>

(* environments with a multiplier of 1.0, of 0.83 and of 0.39 *)
MealEnvs ==
    EnvInputs \cup
    {[temp |-> 26000, ph |-> 7200, oxy |-> 70000, turb |-> 60000, dens |-> 40000]}

MealsNext ==
    \E fish_count \in FishCounts, weight_g \in WeightInputs, e \in MealEnvs,
       clock \in ClockInputs :
          recommend_feed_plan_at(fish_count, weight_g, e, clock)

SpecMeals == AlertInit /\ [][MealsNext]_vars

(* 3, 2 or 1 meals for a multiplier of at least 0.85, at least 0.60, lower *)
MealCountByMultiplier ==
    LET em == feed_plan.out.env_multiplier
    IN  Len(feed_plan.out.meals) = IF em >= 850 THEN 3 ELSE IF em >= 600 THEN 2 ELSE 1

(* every meal is after the call and at most 24 hours after it *)
MealsWithinNextDay ==
    \A i \in 1..Len(feed_plan.out.meals) :
        /\ feed_plan.out.meals[i].time > feed_plan.clock
        /\ feed_plan.out.meals[i].time <= feed_plan.clock + MINUTES_PER_DAY

(* C30: the plan has 3, 2 or 1 meals by the environment multiplier; the meals
   are listed in ascending order of scheduled time whatever the time of the
   call, so that meals[0] is the earliest upcoming meal; and every meal time
   is strictly after the time of the call and at most 24 hours after it. *)
C30_MealsAscendingFromNow ==
    feed_plan # NoPlan =>
        /\ MealCountByMultiplier
        /\ \A i, j \in 1..Len(feed_plan.out.meals) :
              i < j => feed_plan.out.meals[i].time < feed_plan.out.meals[j].time
        /\ \A i \in 1..Len(feed_plan.out.meals) :
              feed_plan.out.meals[1].time <= feed_plan.out.meals[i].time
        /\ MealsWithinNextDay

(* what the code does: count and window as stated, the meals in the order of
   the slots of the day (morning first), ascending only when the call is
   before the first or after the last slot *)
C30_MealsInSlotOrder ==
    feed_plan # NoPlan =>
        /\ MealCountByMultiplier
        /\ MealsWithinNextDay
        /\ \A i, j \in 1..Len(feed_plan.out.meals) :
              i < j => feed_plan.out.meals[i].time % MINUTES_PER_DAY
                          < feed_plan.out.meals[j].time % MINUTES_PER_DAY

=============================================================================
